---- MODULE Spec2Model ----
(***************************************************************************)
(* Vehicle image comparison: the comparison engine (internal/comparator),  *)
(* the result sanitizer (internal/models), the IR reflectivity map         *)
(* extractor (internal/extractor) and the service pipeline                 *)
(* (pkg/vehiclecompare).                                                   *)
(*                                                                         *)
(* float64 values are modelled in fixed point: the integer n stands for    *)
(* n / Scale.  NaN and the two infinities are three reserved integers far  *)
(* outside the range the computations reach.  Pixel coordinates, pixel     *)
(* areas and element sizes are whole numbers (unscaled).                   *)
(***************************************************************************)
EXTENDS Integers, Sequences, FiniteSets, TLC

\* ------------------------------------------------------------------------
\* float64 in fixed point
\* ------------------------------------------------------------------------
Scale == 1000

NaN == 2100000000

PosInf == 2000000000

NegInf == -2000000000

IsNaN(v) == v = NaN

IsInf(v) == v = PosInf \/ v = NegInf

Abs(x) == IF x < 0 THEN -x ELSE x

Max(a, b) == IF a > b THEN a ELSE b

Min(a, b) == IF a < b THEN a ELSE b

\* a / b for two values in the same unit, result scaled
Div(a, b) == (a * Scale) \div b

RECURSIVE SumSeq(_)
SumSeq(s) == IF s = << >> THEN 0 ELSE Head(s) + SumSeq(Tail(s))

SetMax(S) == CHOOSE x \in S : \A y \in S : y <= x

SetMin(S) == CHOOSE x \in S : \A y \in S : x <= y

RECURSIVE SqrtSearch(_, _, _)
SqrtSearch(n, lo, hi) ==
    IF lo >= hi THEN lo
    ELSE LET mid == (lo + hi + 1) \div 2
         IN IF mid * mid <= n THEN SqrtSearch(n, mid, hi)
                              ELSE SqrtSearch(n, lo, mid - 1)

\* floor of the square root of a natural number below 2^31
Isqrt(n) == SqrtSearch(n, 0, 46340)

\* math.Sqrt(dx*dx + dy*dy) for whole dx, dy; result scaled, to 0.1
Hypot(sumsq) == Isqrt(sumsq * 100) * 100

\* math.Exp(-x) for a scaled x >= 0; result scaled
RECURSIVE ExpNeg(_)
ExpNeg(x) ==
    IF x >= 8000 THEN 0
    ELSE IF x >= 1000 THEN (ExpNeg(x - 1000) * 368) \div 1000
    ELSE LET t2 == (x * x) \div 2000
             t3 == (t2 * x) \div 3000
             t4 == (t3 * x) \div 4000
         IN Scale - x + t2 - t3 + t4

\* ------------------------------------------------------------------------
\* models: enumerations (types.go, features.go, result.go)
\* ------------------------------------------------------------------------
ViewFront == "ViewFront"

ViewRear == "ViewRear"

ViewUnknown == "ViewUnknown"

VehicleView == {ViewFront, ViewRear, ViewUnknown}

LightingDaylight == "LightingDaylight"

LightingInfrared == "LightingInfrared"

LightingUnknown == "LightingUnknown"

LightingType == {LightingDaylight, LightingInfrared, LightingUnknown}

ConfidenceHigh == "ConfidenceHigh"

ConfidenceMedium == "ConfidenceMedium"

ConfidenceLow == "ConfidenceLow"

\* a nil pointer (*DaylightFeatures, *InfraredFeatures, *IRSignature,
\* *ComparisonResult)
Nil == [isNil |-> TRUE]

\* a nil error
NoError == "nil"

Point2D(x, y) == [X |-> x, Y |-> y]

Bounds(x, y, w, h) == [X |-> x, Y |-> y, Width |-> w, Height |-> h]

Distance(p, q) ==
    Hypot((p.X - q.X) * (p.X - q.X) + (p.Y - q.Y) * (p.Y - q.Y))

\* ------------------------------------------------------------------------
\* comparator: ComparisonEngine
\* ------------------------------------------------------------------------
safeFloat64_NoClamp(value, defaultValue) ==
    IF IsNaN(value) \/ IsInf(value) THEN defaultValue ELSE value

safeFloat64(value, defaultValue) ==
    IF IsNaN(value) \/ IsInf(value) THEN defaultValue
    ELSE Max(0, Min(Scale, value))

\* 1.0 - math.Abs(a-b)/max when max > 0, else the default
RatioSim(a, b, defaultValue) ==
    LET m == Max(a, b)
    IN IF m > 0 THEN Scale - Div(Abs(a - b), m) ELSE defaultValue

\* the ratios divided by the value of the first argument rather than by the
\* larger of the two
compareVehicleProportions_ByFirst(prop1, prop2) ==
    LET sim(a, b, defaultValue) ==
            IF a > 0 THEN Scale - Div(Abs(a - b), a) ELSE defaultValue
        licensePlateSim ==
            IF prop1.LicensePlateRatio > 0 /\ prop2.LicensePlateRatio > 0
            THEN sim(prop1.LicensePlateRatio, prop2.LicensePlateRatio, Scale)
            ELSE Scale
        result == (sim(prop1.WidthHeightRatio, prop2.WidthHeightRatio, 500) * 400
                   + sim(prop1.UpperLowerRatio, prop2.UpperLowerRatio, 500) * 400
                   + licensePlateSim * 200) \div Scale
    IN IF IsNaN(result) \/ IsInf(result) THEN 500
       ELSE Max(0, Min(Scale, result))

compareVehicleProportions(prop1, prop2) ==
    LET widthHeightSim ==
            RatioSim(prop1.WidthHeightRatio, prop2.WidthHeightRatio, 500)
        upperLowerSim ==
            RatioSim(prop1.UpperLowerRatio, prop2.UpperLowerRatio, 500)
        licensePlateSim ==
            IF prop1.LicensePlateRatio > 0 /\ prop2.LicensePlateRatio > 0
            THEN RatioSim(prop1.LicensePlateRatio, prop2.LicensePlateRatio, Scale)
            ELSE Scale
        result == (widthHeightSim * 400 + upperLowerSim * 400
                   + licensePlateSim * 200) \div Scale
    IN IF IsNaN(result) \/ IsInf(result) THEN 500
       ELSE Max(0, Min(Scale, result))

\* similarity of one pair of structural elements of the same type
structuralPairSim(e1, e2) ==
    LET distance == Distance(e1.Position, e2.Position)
        positionSim == ExpNeg(distance \div 50)
        sizeSim == RatioSim(e1.Size, e2.Size, 500)
    IN safeFloat64((positionSim * 700 + sizeSim * 300) \div Scale, 0)

\* bestSimilarity of the inner loop: starts at 0.0, raised by each better pair
structuralBest(e1, elements2) ==
    SetMax({0} \cup { structuralPairSim(e1, elements2[j]) :
                        j \in { k \in 1..Len(elements2) :
                                  elements2[k].Type = e1.Type } })

compareStructuralElements(elements1, elements2) ==
    IF Len(elements1) = 0 /\ Len(elements2) = 0 THEN Scale
    ELSE IF Len(elements1) = 0 \/ Len(elements2) = 0 THEN 0
    ELSE LET best == [i \in 1..Len(elements1) |->
                        structuralBest(elements1[i], elements2)]
             matched == { i \in 1..Len(elements1) : best[i] > 300 }
             totalSimilarity ==
                 SumSeq([i \in 1..Len(elements1) |->
                            IF i \in matched THEN best[i] ELSE 0])
             matchCount == Cardinality(matched)
         IN IF matchCount = 0 THEN 0
            ELSE safeFloat64(totalSimilarity \div matchCount, 500)

\* minDistance of the inner loop over a non-empty point list
minDistance(p1, points2) ==
    SetMin({ Distance(p1, points2[j]) : j \in 1..Len(points2) })

\* the greedy nearest-neighbour loop shared by compareReferencePoints and
\* compareContours: average distance of the points of points1 whose nearest
\* point of points2 is closer than the threshold; -1 when none matches
avgMatchedDistance(points1, points2, threshold) ==
    LET near == [i \in 1..Len(points1) |-> minDistance(points1[i], points2)]
        matched == { i \in 1..Len(points1) : near[i] < threshold }
        totalDistance ==
            SumSeq([i \in 1..Len(points1) |->
                       IF i \in matched THEN near[i] ELSE 0])
    IN IF matched = {} THEN -1
       ELSE totalDistance \div Cardinality(matched)

\* compareReferencePoints that never matches the points
compareReferencePoints_Neutral(points1, points2) == 500

compareReferencePoints(points1, points2) ==
    IF Len(points1) = 0 \/ Len(points2) = 0 THEN 500
    ELSE LET avgDistance == avgMatchedDistance(points1, points2, 50 * Scale)
         IN IF avgDistance < 0 THEN 0
            ELSE safeFloat64(ExpNeg(avgDistance \div 20), 500)

\* the float64 exponent: both vectors divided by one power of ten so that
\* the sums of squares stay in range (the cosine does not change)
SigShift(sig1, sig2) ==
    LET m == SetMax({0} \cup { Abs(sig1[i]) : i \in 1..Len(sig1) }
                        \cup { Abs(sig2[i]) : i \in 1..Len(sig2) })
    IN CHOOSE k \in {1, 10, 100, 1000, 10000, 100000, 1000000, 10000000} :
          /\ m \div k <= 60
          /\ \A j \in {1, 10, 100, 1000, 10000, 100000, 1000000, 10000000} :
                m \div j <= 60 => k <= j

compareSignatures(sig1, sig2) ==
    IF Len(sig1) # Len(sig2) THEN 0
    ELSE IF Len(sig1) = 0 THEN Scale
    ELSE LET k == SigShift(sig1, sig2)
             a == [i \in 1..Len(sig1) |->
                     IF sig1[i] >= 0 THEN sig1[i] \div k ELSE -((-sig1[i]) \div k)]
             b == [i \in 1..Len(sig2) |->
                     IF sig2[i] >= 0 THEN sig2[i] \div k ELSE -((-sig2[i]) \div k)]
             dotProduct == SumSeq([i \in 1..Len(a) |-> a[i] * b[i]])
             norm1 == SumSeq([i \in 1..Len(a) |-> a[i] * a[i]])
             norm2 == SumSeq([i \in 1..Len(b) |-> b[i] * b[i]])
             denominator == Isqrt(norm1 * norm2)
         IN IF norm1 = 0 \/ norm2 = 0 THEN 0
            ELSE IF denominator = 0 THEN 0
            ELSE safeFloat64(IF dotProduct >= 0
                             THEN (dotProduct * Scale) \div denominator
                             ELSE -(((-dotProduct) * Scale) \div denominator), 0)

compareSingleLightElement(e1, e2) ==
    IF e1.Type # e2.Type THEN 0
    ELSE LET positionDistance == Distance(e1.Position, e2.Position)
             positionSim == ExpNeg(positionDistance \div 30)
             shapeSim == IF e1.Shape = e2.Shape THEN Scale ELSE 0
             sizeSim == RatioSim(e1.Size, e2.Size, 500)
             intensitySim == Scale - Abs(e1.Intensity - e2.Intensity)
         IN safeFloat64((positionSim * 400 + shapeSim * 200 + sizeSim * 200
                         + intensitySim * 200) \div Scale, 0)

\* the matching loop entered without the two length checks
compareLightElements_NoEmptyCheck(elements1, elements2) ==
    LET best == [i \in 1..Len(elements1) |->
                    SetMax({0} \cup
                      { compareSingleLightElement(elements1[i], elements2[j]) :
                          j \in 1..Len(elements2) })]
        matched == { i \in 1..Len(elements1) : best[i] > 300 }
        totalSimilarity ==
            SumSeq([i \in 1..Len(elements1) |->
                       IF i \in matched THEN best[i] ELSE 0])
    IN IF matched = {} THEN 0
       ELSE totalSimilarity \div Cardinality(matched)

compareLightElements(elements1, elements2) ==
    IF Len(elements1) = 0 /\ Len(elements2) = 0 THEN Scale
    ELSE IF Len(elements1) = 0 \/ Len(elements2) = 0 THEN 0
    ELSE LET best == [i \in 1..Len(elements1) |->
                        SetMax({0} \cup
                          { compareSingleLightElement(elements1[i], elements2[j]) :
                              j \in 1..Len(elements2) })]
             matched == { i \in 1..Len(elements1) : best[i] > 300 }
             totalSimilarity ==
                 SumSeq([i \in 1..Len(elements1) |->
                            IF i \in matched THEN best[i] ELSE 0])
         IN IF matched = {} THEN 0
            ELSE totalSimilarity \div Cardinality(matched)

compareLightConfiguration(config1, config2) ==
    LET numElementsSim == RatioSim(config1.NumElements, config2.NumElements, 500)
        symmetrySim == Scale - Abs(config1.Symmetry - config2.Symmetry)
        spacingSim ==
            IF config1.Spacing > 0 /\ config2.Spacing > 0
            THEN RatioSim(config1.Spacing, config2.Spacing, Scale)
            ELSE Scale
    IN safeFloat64((numElementsSim * 400 + symmetrySim * 300
                    + spacingSim * 300) \div Scale, 500)

compareLightPatterns(pattern1, pattern2) ==
    LET signatureSimilarity ==
            compareSignatures(pattern1.PatternSignature, pattern2.PatternSignature)
        elementSimilarity ==
            compareLightElements(pattern1.LightElements, pattern2.LightElements)
        configSimilarity ==
            compareLightConfiguration(pattern1.LightConfiguration,
                                      pattern2.LightConfiguration)
    IN safeFloat64((signatureSimilarity * 400 + elementSimilarity * 400
                    + configSimilarity * 200) \div Scale, 500)

compareGeometricFeatures(geo1, geo2) ==
    LET proportionSimilarity ==
            compareVehicleProportions(geo1.VehicleProportions, geo2.VehicleProportions)
        structuralSimilarity ==
            compareStructuralElements(geo1.StructuralElements, geo2.StructuralElements)
        alignmentSimilarity ==
            compareReferencePoints(geo1.ReferencePoints, geo2.ReferencePoints)
    IN safeFloat64((proportionSimilarity * 400 + structuralSimilarity * 400
                    + alignmentSimilarity * 200) \div Scale, 500)

compareContours(contour1, contour2) ==
    IF Len(contour1) = 0 /\ Len(contour2) = 0 THEN Scale
    ELSE IF Len(contour1) = 0 \/ Len(contour2) = 0 THEN 0
    ELSE LET avgDistance == avgMatchedDistance(contour1, contour2, 30 * Scale)
         IN IF avgDistance < 0 THEN 0
            ELSE safeFloat64(ExpNeg(avgDistance \div 15), 500)

\* Go's integer division: truncation towards zero
IntDiv(a, b) == IF a >= 0 THEN a \div b ELSE -((-a) \div b)

comparePlateAreas(area1, area2) ==
    LET center1 == Point2D(area1.X + IntDiv(area1.Width, 2),
                           area1.Y + IntDiv(area1.Height, 2))
        center2 == Point2D(area2.X + IntDiv(area2.Width, 2),
                           area2.Y + IntDiv(area2.Height, 2))
        centerDistance == Distance(center1, center2)
        positionSim == ExpNeg(centerDistance \div 20)
        sizeSim == RatioSim(area1.Width * area1.Height,
                            area2.Width * area2.Height, 500)
    IN safeFloat64((positionSim * 600 + sizeSim * 400) \div Scale, 500)

compareBumperFeatures(bumper1, bumper2) ==
    LET contourSimilarity ==
            compareContours(bumper1.ContourSignature, bumper2.ContourSignature)
        textureSimilarity ==
            compareSignatures(bumper1.TextureFeatures, bumper2.TextureFeatures)
        mountingSimilarity ==
            compareReferencePoints(bumper1.MountingPoints, bumper2.MountingPoints)
        plateAreaSimilarity ==
            comparePlateAreas(bumper1.LicensePlateArea, bumper2.LicensePlateArea)
    IN safeFloat64((contourSimilarity * 300 + textureSimilarity * 300
                    + mountingSimilarity * 200 + plateAreaSimilarity * 200)
                   \div Scale, 500)

colorPairSim(c1, c2) ==
    LET colorDistance == Hypot((c1.R - c2.R) * (c1.R - c2.R)
                               + (c1.G - c2.G) * (c1.G - c2.G)
                               + (c1.B - c2.B) * (c1.B - c2.B))
    IN Scale - (colorDistance * Scale) \div 441670

compareColorProfiles(color1, color2) ==
    LET colors1 == color1.DominantColors
        colors2 == color2.DominantColors
    IN IF Len(colors1) = 0 /\ Len(colors2) = 0 THEN Scale
       ELSE IF Len(colors1) = 0 \/ Len(colors2) = 0 THEN 0
       ELSE LET best == [i \in 1..Len(colors1) |->
                           SetMax({0} \cup { colorPairSim(colors1[i], colors2[j]) :
                                               j \in 1..Len(colors2) })]
                matched == { i \in 1..Len(colors1) : best[i] > 300 }
                totalSimilarity ==
                    SumSeq([i \in 1..Len(colors1) |->
                               IF i \in matched THEN best[i] ELSE 0])
            IN IF matched = {} THEN 0
               ELSE totalSimilarity \div Cardinality(matched)

compareBadgeFeatures(badges1, badges2) == 500

compareTrimFeatures(trim1, trim2) == 500

compareTextureSignatures(texture1, texture2) ==
    compareSignatures(texture1.Features, texture2.Features)

compareReflectiveElements(elements1, elements2) == 500

compareHeatPatterns(patterns1, patterns2) == 500

compareDaylightFeatures(day1, day2) ==
    LET colorSimilarity == compareColorProfiles(day1.ColorProfile, day2.ColorProfile)
        badgeSimilarity == compareBadgeFeatures(day1.BadgeLocations, day2.BadgeLocations)
        trimSimilarity == compareTrimFeatures(day1.TrimDetails, day2.TrimDetails)
        textureSimilarity ==
            compareTextureSignatures(day1.SurfaceTexture, day2.SurfaceTexture)
    IN safeFloat64((colorSimilarity * 400 + badgeSimilarity * 200
                    + trimSimilarity * 200 + textureSimilarity * 200)
                   \div Scale, 500)

\* rows of equal length are summed, a row whose two lengths differ is skipped
compareReflectivityMaps(map1, map2) ==
    IF Len(map1) = 0 /\ Len(map2) = 0 THEN Scale
    ELSE IF Len(map1) = 0 \/ Len(map2) = 0 THEN 0
    ELSE IF Len(map1) # Len(map2) THEN 0
    ELSE LET rows == { i \in 1..Len(map1) : Len(map1[i]) = Len(map2[i]) }
             rowDifference(i) ==
                 SumSeq([j \in 1..Len(map1[i]) |-> Abs(map1[i][j] - map2[i][j])])
             totalDifference ==
                 SumSeq([i \in 1..Len(map1) |->
                            IF i \in rows THEN rowDifference(i) ELSE 0])
             cellCount ==
                 SumSeq([i \in 1..Len(map1) |->
                            IF i \in rows THEN Len(map1[i]) ELSE 0])
         IN IF cellCount = 0 THEN 0
            ELSE safeFloat64(Scale - totalDifference \div cellCount, 500)

\* the matched similarities divided by the number of matches
compareShadowPatterns_ByMatchCount(shadows1, shadows2) ==
    IF Len(shadows1) = 0 /\ Len(shadows2) = 0 THEN Scale
    ELSE IF Len(shadows1) = 0 \/ Len(shadows2) = 0 THEN 0
    ELSE LET best == [i \in 1..Len(shadows1) |->
                        SetMax({0} \cup
                          { ExpNeg(Distance(shadows1[i], shadows2[j]) \div 50) :
                              j \in 1..Len(shadows2) })]
             matched == { i \in 1..Len(shadows1) : best[i] > 300 }
             totalSimilarity ==
                 SumSeq([i \in 1..Len(shadows1) |->
                            IF i \in matched THEN best[i] ELSE 0])
         IN IF matched = {} THEN 0
            ELSE safeFloat64(totalSimilarity \div Cardinality(matched), 500)

compareShadowPatterns(shadows1, shadows2) ==
    IF Len(shadows1) = 0 /\ Len(shadows2) = 0 THEN Scale
    ELSE IF Len(shadows1) = 0 \/ Len(shadows2) = 0 THEN 0
    ELSE LET best == [i \in 1..Len(shadows1) |->
                        SetMax({0} \cup
                          { ExpNeg(Distance(shadows1[i], shadows2[j]) \div 50) :
                              j \in 1..Len(shadows2) })]
             matched == { i \in 1..Len(shadows1) : best[i] > 300 }
             totalSimilarity ==
                 SumSeq([i \in 1..Len(shadows1) |->
                            IF i \in matched THEN best[i] ELSE 0])
             minShadows == Min(Len(shadows1), Len(shadows2))
         IN IF matched = {} THEN 0
            ELSE safeFloat64(totalSimilarity \div minShadows, 500)

compareIRSignatures(sig1, sig2) ==
    LET reflectivitySimilarity ==
            compareReflectivityMaps(sig1.ReflectivityMap, sig2.ReflectivityMap)
        materialSimilarity ==
            compareSignatures(sig1.MaterialSignature, sig2.MaterialSignature)
        illuminationSimilarity ==
            compareSignatures(sig1.IlluminationGradient, sig2.IlluminationGradient)
        shadowSimilarity ==
            compareShadowPatterns(sig1.ShadowPatterns, sig2.ShadowPatterns)
        textureSimilarity ==
            compareSignatures(sig1.TextureFeatures, sig2.TextureFeatures)
    IN safeFloat64((reflectivitySimilarity * 350 + materialSimilarity * 300
                    + shadowSimilarity * 150 + illuminationSimilarity * 100
                    + textureSimilarity * 100) \div Scale, 500)

compareInfraredFeatures(ir1, ir2) ==
    IF ir1.IRSignature # Nil /\ ir2.IRSignature # Nil
    THEN compareIRSignatures(ir1.IRSignature, ir2.IRSignature)
    ELSE LET thermalSimilarity ==
                 compareSignatures(ir1.ThermalSignature, ir2.ThermalSignature)
             reflectiveSimilarity ==
                 compareReflectiveElements(ir1.ReflectiveElements, ir2.ReflectiveElements)
             heatSimilarity == compareHeatPatterns(ir1.HeatPatterns, ir2.HeatPatterns)
             materialSimilarity ==
                 compareSignatures(ir1.MaterialSignature, ir2.MaterialSignature)
         IN safeFloat64((thermalSimilarity * 300 + reflectiveSimilarity * 300
                         + heatSimilarity * 200 + materialSimilarity * 200)
                        \div Scale, 500)

\* the weight fields NewComparisonEngine stores in the ComparisonEngine
NewComparisonEngine ==
    [geometricWeight |-> 350, lightPatternWeight |-> 300, bumperWeight |-> 200,
     colorWeight |-> 100, thermalWeight |-> 50]

\* a weighted sum that reads the weight fields of the engine instead
calculateWeightedSimilarity_StructWeights(scores, lighting) ==
    LET ce == NewComparisonEngine
        result ==
            (safeFloat64(scores.GeometricSimilarity, 500) * ce.geometricWeight
             + safeFloat64(scores.LightPatternSimilarity, 500) * ce.lightPatternWeight
             + safeFloat64(scores.BumperSimilarity, 500) * ce.bumperWeight
             + safeFloat64(scores.ColorSimilarity, 500) * ce.colorWeight
             + safeFloat64(scores.ThermalSimilarity, 500) * ce.thermalWeight)
            \div Scale
    IN safeFloat64(result, 500)

calculateWeightedSimilarity(scores, lighting) ==
    LET weights ==
            IF lighting = LightingDaylight
            THEN [geometric |-> 300, lightPattern |-> 300, bumper |-> 200,
                  color |-> 200, thermal |-> 0]
            ELSE [geometric |-> 350, lightPattern |-> 350, bumper |-> 200,
                  color |-> 0, thermal |-> 100]
        result ==
            (safeFloat64(scores.GeometricSimilarity, 500) * weights.geometric
             + safeFloat64(scores.LightPatternSimilarity, 500) * weights.lightPattern
             + safeFloat64(scores.BumperSimilarity, 500) * weights.bumper
             + safeFloat64(scores.ColorSimilarity, 500) * weights.color
             + safeFloat64(scores.ThermalSimilarity, 500) * weights.thermal)
            \div Scale
    IN safeFloat64(result, 500)

getSimilarityThreshold(lighting) ==
    IF lighting = LightingDaylight THEN 750 ELSE 700

calculateConfidenceLevel(similarity, features1, features2) ==
    LET avgQuality ==
            (features1.ExtractionQuality + features2.ExtractionQuality) \div 2
    IN IF avgQuality > 800 /\ similarity > 900 THEN ConfidenceHigh
       ELSE IF avgQuality > 600 /\ similarity > 800 THEN ConfidenceHigh
       ELSE IF avgQuality > 400 THEN ConfidenceMedium
       ELSE ConfidenceLow

\* the value of a call: the pair (result, err) the function returns
Return(result, error) == [result |-> result, err |-> error]

\* the two label checks CompareVehicles starts with: the error, or NoError
validateLabels_ViewOnly(features1, features2) ==
    IF features1.View # features2.View
    THEN "cannot compare different vehicle views"
    ELSE NoError

validateLabels(features1, features2) ==
    IF features1.View # features2.View
    THEN "cannot compare different vehicle views"
    ELSE IF features1.Lighting # features2.Lighting
    THEN "cannot compare different lighting conditions"
    ELSE NoError

\* isSameVehicle := overallSimilarity > ce.getSimilarityThreshold(lighting)
isSameVehicle_AtLeast(overallSimilarity, lighting) ==
    overallSimilarity >= getSimilarityThreshold(lighting)

isSameVehicle(overallSimilarity, lighting) ==
    overallSimilarity > getSimilarityThreshold(lighting)

EmptyProcessingInfo ==
    [ProcessingTimeMs |-> 0, Image1Quality |-> 0, Image2Quality |-> 0,
     AlignmentQuality |-> 0, ViewConsistency |-> FALSE,
     LightingConsistency |-> FALSE]

\* the five component comparisons of CompareVehicles
compareComponents(features1, features2) ==
    [GeometricSimilarity |->
         compareGeometricFeatures(features1.GeometricFeatures,
                                  features2.GeometricFeatures),
     LightPatternSimilarity |->
         compareLightPatterns(features1.LightPatterns, features2.LightPatterns),
     BumperSimilarity |->
         compareBumperFeatures(features1.BumperFeatures, features2.BumperFeatures),
     ColorSimilarity |->
         IF features1.DaylightFeatures # Nil /\ features2.DaylightFeatures # Nil
         THEN compareDaylightFeatures(features1.DaylightFeatures,
                                      features2.DaylightFeatures)
         ELSE 0,
     ThermalSimilarity |->
         IF features1.InfraredFeatures # Nil /\ features2.InfraredFeatures # Nil
         THEN compareInfraredFeatures(features1.InfraredFeatures,
                                      features2.InfraredFeatures)
         ELSE 0]

\* the ComparisonResult built from the overall similarity
decide(overallSimilarity, detailedScores, features1, features2) ==
    [IsSameVehicle |-> isSameVehicle(overallSimilarity, features1.Lighting),
     SimilarityScore |-> overallSimilarity,
     ConfidenceLevel |->
         calculateConfidenceLevel(overallSimilarity, features1, features2),
     DetailedScores |-> detailedScores,
     ProcessingInfo |-> EmptyProcessingInfo]

\* CompareVehicles once the labels are known to agree
scoreAndDecide(detailedScores, features1, features2) ==
    decide(calculateWeightedSimilarity(detailedScores, features1.Lighting),
           detailedScores, features1, features2)

labelsOrCompare(labelError, features1, features2) ==
    IF labelError # NoError
    THEN Return(Nil, labelError)
    ELSE Return(scoreAndDecide(compareComponents(features1, features2),
                               features1, features2),
                NoError)

CompareVehicles(features1, features2) ==
    labelsOrCompare(validateLabels(features1, features2), features1, features2)

\* ------------------------------------------------------------------------
\* extractor: LightPatternExtractor (signature and configuration)
\* ------------------------------------------------------------------------
ShapeRectangular == 0

ShapeRound == 1

ShapeAngular == 2

ShapeCustom == 3

SignatureSlots == 10

\* leftElements and rightElements: elements left of the mean x, and the rest
leftCount(elements) ==
    LET sumX == SumSeq([i \in 1..Len(elements) |-> elements[i].Position.X])
    IN Cardinality({ i \in 1..Len(elements) :
                       elements[i].Position.X * Len(elements) < sumX })

elementSymmetry(elements) ==
    LET left == leftCount(elements)
        right == Len(elements) - left
    IN Scale - (Abs(left - right) * Scale) \div Len(elements)

generatePatternSignature(elements) ==
    LET n == Len(elements)
        avgIntensity ==
            SumSeq([i \in 1..n |-> elements[i].Intensity]) \div n
    IN [i \in 1..SignatureSlots |->
          IF i <= n
          THEN elements[i].Size * Scale + elements[i].Intensity
               + elements[i].Shape * Scale
          ELSE IF n > 0 /\ i = n + 1 THEN avgIntensity
          ELSE IF n >= 2 /\ i = n + 2 THEN elementSymmetry(elements)
          ELSE 0]

classifyLightConfiguration(elements) ==
    LET n == Len(elements)
        pairs == { pr \in (1..n) \X (1..n) : pr[1] < pr[2] }
        totalSpacing ==
            IF pairs = {} THEN 0
            ELSE LET RECURSIVE Total(_)
                     Total(ps) ==
                         IF ps = {} THEN 0
                         ELSE LET pr == CHOOSE q \in ps : TRUE
                              IN Distance(elements[pr[1]].Position,
                                          elements[pr[2]].Position)
                                 + Total(ps \ {pr})
                 IN Total(pairs)
    IN IF n < 2
       THEN [NumElements |-> n, Symmetry |-> 500, Spacing |-> 0]
       ELSE [NumElements |-> n, Symmetry |-> elementSymmetry(elements),
             Spacing |-> totalSpacing \div ((n * (n - 1)) \div 2)]

LightPatternsOf(elements) ==
    [LightElements |-> elements,
     PatternSignature |-> generatePatternSignature(elements),
     LightConfiguration |-> classifyLightConfiguration(elements)]

\* ------------------------------------------------------------------------
\* feature sets handed to CompareVehicles
\* ------------------------------------------------------------------------
\* bounds of the model
MaxOffsetSteps == 2

OffsetStep == 25

\* displacements (pixels) of the detected elements between two photographs
Offsets == { k * OffsetStep : k \in 0..MaxOffsetSteps }

Corners(cols, rows) ==
    << Point2D(0, 0), Point2D(cols, 0), Point2D(0, rows), Point2D(cols, rows) >>

\* no landmark detected: only the corner anchors
GeoPlain ==
    [VehicleProportions |->
         [WidthHeightRatio |-> 1333, UpperLowerRatio |-> 1000,
          LicensePlateRatio |-> 0],
     StructuralElements |-> << >>,
     ReferencePoints |-> Corners(640, 480)]

GeoDetected(d) ==
    [VehicleProportions |->
         [WidthHeightRatio |-> 1333, UpperLowerRatio |-> 1000 + 4 * d,
          LicensePlateRatio |-> 250 + d],
     StructuralElements |->
         << [Type |-> "headlight", Position |-> Point2D(100 + d, 100), Size |-> 500],
            [Type |-> "headlight", Position |-> Point2D(500 + d, 100), Size |-> 500 + 4 * d],
            [Type |-> "grille", Position |-> Point2D(300, 200 + d), Size |-> 1000] >>,
     ReferencePoints |->
         << Point2D(100 + d, 100), Point2D(500 + d, 100), Point2D(300, 200 + d) >>
         \o Corners(640, 480)]

\* zero and negative ratios and sizes, no reference point
GeoDegenerate ==
    [VehicleProportions |->
         [WidthHeightRatio |-> -1000, UpperLowerRatio |-> 0,
          LicensePlateRatio |-> -500],
     StructuralElements |->
         << [Type |-> "headlight", Position |-> Point2D(100, 100), Size |-> -400] >>,
     ReferencePoints |-> << >>]

GeoSet == {GeoPlain, GeoDegenerate} \cup { GeoDetected(d) : d \in Offsets }

LightNone == LightPatternsOf(<< >>)

LightDetected(d) ==
    LightPatternsOf(
        << [Position |-> Point2D(100 + d, 50), Shape |-> ShapeRound,
            Size |-> 400, Intensity |-> 900, Type |-> "TypeHeadlight"],
           [Position |-> Point2D(500 + d, 50), Shape |-> ShapeRound,
            Size |-> 400 + 4 * d, Intensity |-> 900 - 4 * d,
            Type |-> "TypeHeadlight"] >>)

\* values no extractor produces: intensity and symmetry outside [0,1],
\* negative size and spacing, an empty signature
LightDegenerate ==
    [LightElements |->
         << [Position |-> Point2D(100, 50), Shape |-> ShapeCustom,
             Size |-> -400, Intensity |-> 3000, Type |-> "TypeHeadlight"] >>,
     PatternSignature |-> << >>,
     LightConfiguration |->
         [NumElements |-> 1, Symmetry |-> 5000, Spacing |-> -1000]]

LightSet == {LightNone, LightDegenerate} \cup { LightDetected(d) : d \in Offsets }

BumperA ==
    [ContourSignature |-> << Point2D(10, 400), Point2D(600, 400) >>,
     TextureFeatures |-> << 1000, 0 >>,
     MountingPoints |-> << Point2D(50, 450) >>,
     LicensePlateArea |-> Bounds(280, 400, 80, 25)]

BumperB ==
    [ContourSignature |-> << Point2D(300, 100) >>,
     TextureFeatures |-> << 0, 1000 >>,
     MountingPoints |-> << Point2D(600, 50) >>,
     LicensePlateArea |-> Bounds(0, 0, 0, 0)]

BumperC ==
    [ContourSignature |-> << Point2D(12, 405), Point2D(590, 410) >>,
     TextureFeatures |-> << 900, 300 >>,
     MountingPoints |-> << Point2D(60, 440) >>,
     LicensePlateArea |-> Bounds(1000, 1000, -50, 25)]

\* ------------------------------------------------------------------------
\* vehiclecompare: the simplified extractors of the service
\* ------------------------------------------------------------------------
extractBumperFeatures ==
    [ContourSignature |-> << >>,
     TextureFeatures |-> << 500, 300, 700 >>,
     MountingPoints |-> << >>,
     LicensePlateArea |-> Bounds(0, 0, 0, 0)]

extractDaylightFeatures ==
    [ColorProfile |->
         [DominantColors |-> << [R |-> 128, G |-> 128, B |-> 128, Weight |-> 500],
                                [R |-> 64, G |-> 64, B |-> 64, Weight |-> 300] >>],
     BadgeLocations |-> << >>,
     TrimDetails |-> << >>,
     SurfaceTexture |-> [Features |-> << 400, 600, 200 >>, Type |-> "basic"]]

extractInfraredFeatures ==
    [ThermalSignature |-> << 300, 700, 500 >>,
     ReflectiveElements |-> << >>,
     HeatPatterns |-> << >>,
     MaterialSignature |-> << 600, 400, 800 >>,
     IRSignature |-> Nil]

\* the service's bumper with a plate area of 8 and of 5 pixels, far apart
BumperD == [extractBumperFeatures EXCEPT !.LicensePlateArea = Bounds(0, 0, 8, 1)]

BumperE == [extractBumperFeatures EXCEPT !.LicensePlateArea = Bounds(1000, 1000, 5, 1)]

BumperSet == {extractBumperFeatures, BumperA, BumperB, BumperC, BumperE}

DayRed ==
    [ColorProfile |->
         [DominantColors |-> << [R |-> 255, G |-> 0, B |-> 0, Weight |-> 1000] >>],
     BadgeLocations |-> << >>,
     TrimDetails |-> << >>,
     SurfaceTexture |-> [Features |-> << 1000, 0, 0 >>, Type |-> "basic"]]

DaySet == {Nil, extractDaylightFeatures, DayRed}

\* two IR signatures with nothing in common: reflectivity maps at the two
\* ends of the range, orthogonal vectors, shadows far apart
IRSignatureA ==
    [ReflectivityMap |-> << << 1000, 1000 >>, << 1000, 1000 >> >>,
     MaterialSignature |-> << 1000, 0, 0, 0, 0, 0 >>,
     IlluminationGradient |-> << 1000, 0, 0, 0 >>,
     ShadowPatterns |-> << Point2D(20, 20) >>,
     TextureFeatures |-> << 1000, 0, 0, 0 >>]

IRSignatureB ==
    [ReflectivityMap |-> << << 0, 0 >>, << 0, 0 >> >>,
     MaterialSignature |-> << 0, 1000, 0, 0, 0, 0 >>,
     IlluminationGradient |-> << 0, 1000, 0, 0 >>,
     ShadowPatterns |-> << Point2D(600, 400) >>,
     TextureFeatures |-> << 0, 1000, 0, 0 >>]

\* close to A: the same vehicle photographed again
IRSignatureC ==
    [ReflectivityMap |-> << << 900, 1000 >>, << 1000, 800 >> >>,
     MaterialSignature |-> << 1000, 100, 0, 0, 0, 0 >>,
     IlluminationGradient |-> << 1000, 0, 100, 0 >>,
     ShadowPatterns |-> << Point2D(25, 20), Point2D(30, 30) >>,
     TextureFeatures |-> << 1000, 0, 0, 200 >>]

InfraredWith(signature) ==
    [ThermalSignature |-> << 300, 700, 500 >>,
     ReflectiveElements |-> << >>,
     HeatPatterns |-> << >>,
     MaterialSignature |-> << 600, 400, 800 >>,
     IRSignature |-> signature]

IRSet == {Nil, extractInfraredFeatures, InfraredWith(IRSignatureA),
          InfraredWith(IRSignatureB), InfraredWith(IRSignatureC)}

QualitySet == {300, 900}

Features(view, lighting, geo, light, bumper, day, ir, quality) ==
    [View |-> view, Lighting |-> lighting,
     GeometricFeatures |-> geo, LightPatterns |-> light,
     BumperFeatures |-> bumper,
     DaylightFeatures |-> day, InfraredFeatures |-> ir,
     ExtractionQuality |-> quality]

\* the first feature set of a pair: four daylight and three infrared ones
AnchorsDaylight ==
    { Features(ViewFront, LightingDaylight, GeoDetected(0), LightDetected(0),
               extractBumperFeatures, extractDaylightFeatures, Nil, 900),
      Features(ViewFront, LightingDaylight, GeoPlain, LightNone,
               BumperA, Nil, extractInfraredFeatures, 650),
      Features(ViewFront, LightingDaylight, GeoDegenerate, LightDegenerate,
               BumperB, DayRed, Nil, 300),
      Features(ViewFront, LightingDaylight, GeoDetected(0), LightDetected(0),
               BumperD, Nil, Nil, 900) }

AnchorsInfrared ==
    { Features(ViewRear, LightingInfrared, GeoDetected(0), LightDetected(0),
               BumperA, Nil, InfraredWith(IRSignatureA), 900),
      Features(ViewRear, LightingInfrared, GeoPlain, LightNone,
               extractBumperFeatures, Nil, extractInfraredFeatures, 650),
      Features(ViewRear, LightingInfrared, GeoDegenerate, LightDegenerate,
               BumperC, DayRed, InfraredWith(IRSignatureB), 300) }

\* the pairs of feature sets the engine is called with
PairsDaylight ==
    { <<a, Features(ViewFront, LightingDaylight, g, l, b, d, Nil, q)>> :
        a \in AnchorsDaylight, g \in GeoSet, l \in LightSet, b \in BumperSet,
        d \in DaySet, q \in QualitySet }

PairsInfrared ==
    { <<a, Features(ViewRear, LightingInfrared, g, l, b, Nil, i, q)>> :
        a \in AnchorsInfrared, g \in GeoSet, l \in LightSet, b \in BumperSet,
        i \in IRSet, q \in QualitySet }

PairsAnyLabels ==
    { <<Features(v1, l1, GeoDetected(0), LightDetected(0), BumperA,
                 extractDaylightFeatures, InfraredWith(IRSignatureA), 900),
        Features(v2, l2, g, LightDetected(0), BumperA,
                 extractDaylightFeatures, InfraredWith(IRSignatureC), 900)>> :
        v1 \in VehicleView, v2 \in VehicleView,
        l1 \in LightingType, l2 \in LightingType, g \in GeoSet }

\* a feature set compared with itself
PairsIdentity ==
    { <<Features(ViewFront, LightingDaylight, g, l, b, d, Nil, 900),
        Features(ViewFront, LightingDaylight, g, l, b, d, Nil, 900)>> :
        g \in GeoSet, l \in LightSet, b \in BumperSet,
        d \in {Nil, extractDaylightFeatures} }
    \cup
    { <<Features(ViewRear, LightingInfrared, g, l, b, Nil, i, 900),
        Features(ViewRear, LightingInfrared, g, l, b, Nil, i, 900)>> :
        g \in GeoSet, l \in LightSet, b \in BumperSet,
        i \in {extractInfraredFeatures, InfraredWith(IRSignatureC)} }

FeaturePairs == PairsDaylight \cup PairsInfrared \cup PairsAnyLabels \cup PairsIdentity

\* ------------------------------------------------------------------------
\* models: ComparisonResult.ValidateAndSanitize
\* ------------------------------------------------------------------------
sanitizeFloat64_KeepsInf(value, defaultValue) ==
    IF IsNaN(value) THEN defaultValue ELSE value

sanitizeFloat64(value, defaultValue) ==
    IF IsNaN(value) \/ IsInf(value) THEN defaultValue ELSE value

ValidateAndSanitize(cr) ==
    [cr EXCEPT
       !.SimilarityScore = sanitizeFloat64(@, 0),
       !.DetailedScores =
           [GeometricSimilarity |-> sanitizeFloat64(@.GeometricSimilarity, 0),
            LightPatternSimilarity |-> sanitizeFloat64(@.LightPatternSimilarity, 0),
            BumperSimilarity |-> sanitizeFloat64(@.BumperSimilarity, 0),
            ColorSimilarity |-> sanitizeFloat64(@.ColorSimilarity, 0),
            ThermalSimilarity |-> sanitizeFloat64(@.ThermalSimilarity, 0)],
       !.ProcessingInfo =
           [@ EXCEPT !.Image1Quality = sanitizeFloat64(@, 0),
                     !.Image2Quality = sanitizeFloat64(@, 0),
                     !.AlignmentQuality = sanitizeFloat64(@, 0)]]

\* the nine float64 fields of a ComparisonResult
FloatFields(cr) ==
    << cr.SimilarityScore,
       cr.DetailedScores.GeometricSimilarity,
       cr.DetailedScores.LightPatternSimilarity,
       cr.DetailedScores.BumperSimilarity,
       cr.DetailedScores.ColorSimilarity,
       cr.DetailedScores.ThermalSimilarity,
       cr.ProcessingInfo.Image1Quality,
       cr.ProcessingInfo.Image2Quality,
       cr.ProcessingInfo.AlignmentQuality >>

ResultOf(fields) ==
    [IsSameVehicle |-> FALSE,
     SimilarityScore |-> fields[1],
     ConfidenceLevel |-> ConfidenceLow,
     DetailedScores |->
         [GeometricSimilarity |-> fields[2],
          LightPatternSimilarity |-> fields[3],
          BumperSimilarity |-> fields[4],
          ColorSimilarity |-> fields[5],
          ThermalSimilarity |-> fields[6]],
     ProcessingInfo |->
         [ProcessingTimeMs |-> 0, Image1Quality |-> fields[7],
          Image2Quality |-> fields[8], AlignmentQuality |-> fields[9],
          ViewConsistency |-> TRUE, LightingConsistency |-> TRUE]]

\* float64 values a result field is given before it is sanitized
MaxExcess == 1

FloatSamples ==
    {NaN, PosInf, NegInf, 0, 500, Scale}
        \cup { Scale + 500 * k : k \in 1..MaxExcess }
        \cup { 0 - 500 * k : k \in 1..MaxExcess }

\* results in which at most two of the nine fields leave the value 0.5
UnsanitizedResults ==
    { ResultOf([k \in 1..9 |-> IF k = i THEN a ELSE IF k = j THEN b ELSE 500]) :
        i \in 1..9, j \in {1, 5, 9}, a \in FloatSamples, b \in FloatSamples }

\* ------------------------------------------------------------------------
\* extractor: IRSignatureExtractor, the reflectivity map
\* ------------------------------------------------------------------------
GridSize == 8

\* int(float64(n) * 0.75) for a size n >= 0
ThreeQuarters(n) == (n * 3) \div 4

calculateSurroundingRegion(plateBounds, imgHeight, imgWidth) ==
    LET expandX == ThreeQuarters(plateBounds.Width)
        expandY == ThreeQuarters(plateBounds.Height)
        x == Max(0, plateBounds.X - expandX)
        y == Max(0, plateBounds.Y - expandY)
    IN Bounds(x, y,
              Min(imgWidth - x, plateBounds.Width + 2 * expandX),
              Min(imgHeight - y, plateBounds.Height + 2 * expandY))

\* the mask extractReflectivityMap builds over the region: TRUE (white) where
\* a pixel is included, FALSE (black) on the plate
plateMask(surroundingRegion, plateBounds) ==
    LET plateX == plateBounds.X - surroundingRegion.X
        plateY == plateBounds.Y - surroundingRegion.Y
        fits == /\ plateX >= 0
                /\ plateY >= 0
                /\ plateX + plateBounds.Width <= surroundingRegion.Width
                /\ plateY + plateBounds.Height <= surroundingRegion.Height
    IN [x \in 0..(surroundingRegion.Width - 1), y \in 0..(surroundingRegion.Height - 1) |->
          ~(/\ fits
            /\ x >= plateX /\ x < plateX + plateBounds.Width
            /\ y >= plateY /\ y < plateY + plateBounds.Height)]

\* gocv.MeanStdDev(cellROI, &mean, nil) / 255.0 : the mean of every pixel of
\* the cell at (x0, y0) of the image, cellW x cellH pixels
cellMean(gray, x0, y0, cellW, cellH) ==
    LET pixels == [k \in 1..(cellW * cellH) |->
                      gray.at[x0 + ((k - 1) % cellW), y0 + ((k - 1) \div cellW)]]
    IN (SumSeq(pixels) * Scale) \div (cellW * cellH * 255)

extractReflectivityMap(gray, surroundingRegion, plateBounds) ==
    LET roiCols == surroundingRegion.Width
        roiRows == surroundingRegion.Height
        mask == plateMask(surroundingRegion, plateBounds)
        cellWidth == roiCols \div GridSize
        cellHeight == roiRows \div GridSize
        cellW(j) == IF j * cellWidth + cellWidth > roiCols
                    THEN roiCols - j * cellWidth ELSE cellWidth
        cellH(i) == IF i * cellHeight + cellHeight > roiRows
                    THEN roiRows - i * cellHeight ELSE cellHeight
    IN [i1 \in 1..GridSize |->
          [j1 \in 1..GridSize |->
             LET i == i1 - 1
                 j == j1 - 1
             IN IF cellW(j) > 0 /\ cellH(i) > 0
                THEN cellMean(gray, surroundingRegion.X + j * cellWidth,
                              surroundingRegion.Y + i * cellHeight,
                              cellW(j), cellH(i))
                ELSE 0]]

\* grayscale photographs: a background pattern and a plate painted over it
GraySide == 16

MaxPlateShift == 1

PlateSet ==
    { Bounds(6 + k, 6, 4, 4) : k \in 0..MaxPlateShift } \cup { Bounds(4, 4, 8, 8) }

PlateFills == {0, 128, 255}

BackgroundSet == {"flat", "ramp", "checker"}

background(pattern, x, y) ==
    IF pattern = "flat" THEN 60
    ELSE IF pattern = "ramp" THEN (x * 8 + y * 4) % 256
    ELSE IF (x + y) % 2 = 0 THEN 200 ELSE 40

InsidePlate(plateBounds, x, y) ==
    /\ x >= plateBounds.X /\ x < plateBounds.X + plateBounds.Width
    /\ y >= plateBounds.Y /\ y < plateBounds.Y + plateBounds.Height

GrayImage(pattern, plateBounds, fill) ==
    [cols |-> GraySide, rows |-> GraySide,
     at |-> [x \in 0..(GraySide - 1), y \in 0..(GraySide - 1) |->
               IF InsidePlate(plateBounds, x, y) THEN fill
               ELSE background(pattern, x, y)]]

\* ------------------------------------------------------------------------
\* extractor: LicensePlateExtractor.  A grayscale image is a background level
\* and the bright patches on it; FindContours returns one contour per patch.
\* Brightness is a gray level 0..255, scaled.
\* ------------------------------------------------------------------------
minPlateWidth == 80

maxPlateWidth == 400

minPlateHeight == 20

maxPlateHeight == 120

aspectRatioMin == 2000

aspectRatioMax == 4500

\* image.Rect(x, y, x+width, y+height)
Rect(x, y, width, height) == Bounds(x, y, width, height)

RectArea(rect) == rect.Width * rect.Height

Overlap(a, b) ==
    Max(0, Min(a.X + a.Width, b.X + b.Width) - Max(a.X, b.X))
      * Max(0, Min(a.Y + a.Height, b.Y + b.Height) - Max(a.Y, b.Y))

\* sum of the gray levels of the pixels of rect
SumOfLevels(gray, rect) ==
    gray.level * RectArea(rect)
      + SumSeq([k \in 1..Len(gray.patches) |->
                   (gray.patches[k].level - gray.level)
                     * Overlap(rect, gray.patches[k].bounds)])

\* gocv.MeanStdDev(roi, &mean, nil); mean.GetDoubleAt(0, 0)
calculateAverageBrightness(gray, rect) ==
    (SumOfLevels(gray, rect) \div RectArea(rect)) * Scale
      + ((SumOfLevels(gray, rect) % RectArea(rect)) * Scale) \div RectArea(rect)

isReflectiveRegion(gray, rect) == calculateAverageBrightness(gray, rect) > 180 * Scale

isValidPlateSize(rect) ==
    IF rect.Width < minPlateWidth \/ rect.Width > maxPlateWidth THEN FALSE
    ELSE IF rect.Height < minPlateHeight \/ rect.Height > maxPlateHeight THEN FALSE
    ELSE IF Div(rect.Width, rect.Height) < aspectRatioMin
              \/ Div(rect.Width, rect.Height) > aspectRatioMax THEN FALSE
    ELSE TRUE

scorePlateCandidate(gray, rect, contourArea) ==
    LET brightnessScore ==
            Min(calculateAverageBrightness(gray, rect) \div 255, Scale)
        rectangularityScore == Div(contourArea, RectArea(rect))
        aspectRatio == Div(rect.Width, rect.Height)
        ratioScore == Scale - (Abs(aspectRatio - 3000) * Scale) \div 3000
        positionScore == IF rect.Y < gray.rows \div 3 THEN 500 ELSE Scale
    IN Max(0, Min(Scale, (brightnessScore * 400 + rectangularityScore * 300
                            + ratioScore * 200 + positionScore * 100) \div Scale))

LicensePlateRegion(bounds, confidence, avgBrightness, isReflective) ==
    [Bounds |-> bounds, Confidence |-> confidence,
     AvgBrightness |-> avgBrightness, IsReflective |-> isReflective]

\* the rectangles the three nested loops try, in no order
SlidingWindows(gray) ==
    { Rect(x, y, width, width \div 3) :
        y \in { gray.rows \div 3 + 10 * k : k \in 0..(gray.rows \div 10) },
        x \in { 10 * k : k \in 0..(gray.cols \div 10) },
        width \in { minPlateWidth + 20 * k :
                      k \in 0..((maxPlateWidth - minPlateWidth) \div 20) } }

TriedWindows(gray) ==
    { w \in SlidingWindows(gray) :
        /\ w.Y < gray.rows - minPlateHeight
        /\ w.X < gray.cols - minPlateWidth
        /\ w.X + w.Width < gray.cols
        /\ ~(w.Height < minPlateHeight \/ w.Height > maxPlateHeight
               \/ w.Y + w.Height >= gray.rows) }

\* the loops run y, then x, then width, upwards
TriedBefore(v, w) ==
    \/ v.Y < w.Y
    \/ v.Y = w.Y /\ v.X < w.X
    \/ v.Y = w.Y /\ v.X = w.X /\ v.Width < w.Width

\* the first of the brightest windows, given the highest brightness
firstBrightest(gray, maxBrightness) ==
    CHOOSE w \in TriedWindows(gray) :
        /\ calculateAverageBrightness(gray, w) = maxBrightness
        /\ \A v \in TriedWindows(gray) :
              calculateAverageBrightness(gray, v) = maxBrightness
                 => (v = w \/ TriedBefore(w, v))

bottomCenter(gray) ==
    LicensePlateRegion(
        Bounds(IntDiv(gray.cols - minPlateWidth * 2, 2),
               gray.rows - (minPlateWidth * 2) \div 3 - 20,
               minPlateWidth * 2, (minPlateWidth * 2) \div 3),
        100, 0, FALSE)

brightestWindow(gray, maxBrightness) ==
    IF maxBrightness > 0
    THEN LicensePlateRegion(firstBrightest(gray, maxBrightness),
                            maxBrightness \div 255, maxBrightness,
                            maxBrightness > 180 * Scale)
    ELSE Nil

\* findBrightestRectangularRegion without the bottom-center fallback
findBrightestRectangularRegion_NoFallback(gray) ==
    brightestWindow(gray,
        SetMax({0} \cup { calculateAverageBrightness(gray, w) :
                             w \in TriedWindows(gray) }))

withBottomCenter(bestRegion, gray) ==
    IF bestRegion = Nil THEN bottomCenter(gray) ELSE bestRegion

findBrightestRectangularRegion(gray) ==
    withBottomCenter(
        brightestWindow(gray,
            SetMax({0} \cup { calculateAverageBrightness(gray, w) :
                                 w \in TriedWindows(gray) })),
        gray)

\* the loop over the contours: <<bestScore, index of bestCandidate>> after
\* the contours i..n, starting from best
RECURSIVE bestContour(_, _, _)
bestContour(gray, i, best) ==
    IF i > Len(gray.patches) THEN best
    ELSE IF isValidPlateSize(gray.patches[i].bounds)
            /\ scorePlateCandidate(gray, gray.patches[i].bounds,
                                   gray.patches[i].contourArea) > best[1]
    THEN bestContour(gray, i + 1,
             << scorePlateCandidate(gray, gray.patches[i].bounds,
                                    gray.patches[i].contourArea), i >>)
    ELSE bestContour(gray, i + 1, best)

candidateOrFallback(best, gray) ==
    IF best[2] = 0
    THEN findBrightestRectangularRegion(gray)
    ELSE LicensePlateRegion(
             gray.patches[best[2]].bounds, best[1],
             calculateAverageBrightness(gray, gray.patches[best[2]].bounds),
             isReflectiveRegion(gray, gray.patches[best[2]].bounds))

DetectLicensePlate(gray) ==
    Return(candidateOrFallback(bestContour(gray, 1, <<0, 0>>), gray), NoError)

\* images handed to DetectLicensePlate
Patch(bounds, level, contourArea) ==
    [bounds |-> bounds, level |-> level, contourArea |-> contourArea]

PlateLevels == {180, 181, 250}

PatchLists ==
    { << >>, << Patch(Bounds(100, 50, 40, 40), 255, 1600) >> }
    \cup { << Patch(Bounds(50, 70, 90, 30), level, 2600) >> : level \in PlateLevels }
    \cup { << Patch(Bounds(20, 5, 90, 30), 255, 2700),
              Patch(Bounds(10, 45, 100, 25), level, 2000),
              Patch(Bounds(50, 70, 90, 30), level, 2600) >> : level \in PlateLevels }

PlateMats ==
    { [cols |-> 200, rows |-> 120, level |-> level, patches |-> patches] :
        level \in {0, 90}, patches \in PatchLists }
    \cup { [cols |-> 80, rows |-> 60, level |-> level, patches |-> << >>] :
             level \in {0, 90} }

\* ------------------------------------------------------------------------
\* preprocessor: QualityAssessor and ViewLightingClassifier.  An image is the
\* record of what the OpenCV primitives measure on it.
\* ------------------------------------------------------------------------
assessBlur(img) == Min((100 * Scale) \div 100, Scale)

calculateHistogramSpread(img) == Min((img.histogramStddev * Scale) \div 64, Scale)

assessContrast(img) == calculateHistogramSpread(img)

assessNoise(img) == Max(0, Scale - (10 * Scale) \div 20)

assessResolution(img) ==
    (Min((img.cols * Scale) \div 640, Scale)
       + Min((img.rows * Scale) \div 480, Scale)) \div 2

AssessImageQuality(img) ==
    Min((assessBlur(img) * 300 + assessContrast(img) * 300
           + assessNoise(img) * 200 + assessResolution(img) * 200) \div Scale,
        Scale)

detectHeadlightPattern(img) ==
    LET headlightCount == Len(img.headlights)
    IN IF headlightCount >= 2 /\ headlightCount <= 4 THEN 700
       ELSE IF headlightCount = 1 THEN 300 ELSE 100

detectGrillePattern(img) ==
    IF img.grilleLines > 3 THEN 600
    ELSE IF img.grilleLines > 1 THEN 300 ELSE 100

detectRedLightRegions(img) ==
    LET redRegions == Len(img.redCenters)
    IN IF redRegions >= 2 THEN 800
       ELSE IF redRegions = 1 THEN 400 ELSE 100

detectBrightVerticalRegions(img) ==
    IF img.verticalRegions >= 2 THEN 600
    ELSE IF img.verticalRegions = 1 THEN 300 ELSE 100

detectTaillightPattern(img) ==
    IF img.channels > 1 THEN detectRedLightRegions(img)
    ELSE detectBrightVerticalRegions(img)

detectRearBumperPattern(img) ==
    IF img.bumperLines > 2 THEN 500
    ELSE IF img.bumperLines > 0 THEN 300 ELSE 100

calculateFrontScore(img) == detectHeadlightPattern(img) + detectGrillePattern(img)

calculateRearScore(img) == detectTaillightPattern(img) + detectRearBumperPattern(img)

\* <<view, confidence>>
ClassifyView(img) ==
    LET frontScore == calculateFrontScore(img)
        rearScore == calculateRearScore(img)
        confidence == Abs(frontScore - rearScore)
    IN IF frontScore > rearScore THEN <<ViewFront, confidence>>
       ELSE IF rearScore > frontScore THEN <<ViewRear, confidence>>
       ELSE <<ViewUnknown, 0>>

calculateBrightness(img) == (128 * Scale) \div 255

calculateContrastPattern(img) == (50 * Scale) \div 100

calculateColorSaturation(img) ==
    IF img.channels = 1 THEN 0 ELSE (128 * Scale) \div 255

\* <<lighting, confidence>>
ClassifyLighting(img) ==
    IF calculateColorSaturation(img) > 100 /\ calculateBrightness(img) > 300
    THEN <<LightingDaylight, 800>>
    ELSE IF calculateContrastPattern(img) > 700 /\ calculateColorSaturation(img) < 50
    THEN <<LightingInfrared, 800>>
    ELSE <<LightingUnknown, 0>>

\* ------------------------------------------------------------------------
\* vehiclecompare: the steps of compareImages
\* ------------------------------------------------------------------------
\* processImage without the gate on the confidence of the view
processImage_NoViewGate(img) ==
    LET quality == AssessImageQuality(img)
        view == ClassifyView(img)
        lighting == ClassifyLighting(img)
    IN IF quality < 300
       THEN Return(Nil, "image quality too low")
       ELSE IF lighting[2] < 500
       THEN Return(Nil, "unable to determine lighting conditions with sufficient confidence")
       ELSE Return([Image |-> img, View |-> view[1], Lighting |-> lighting[1],
                    QualityScore |-> quality],
                   NoError)

processImage(img) ==
    LET quality == AssessImageQuality(img)
        view == ClassifyView(img)
        lighting == ClassifyLighting(img)
    IN IF quality < 300
       THEN Return(Nil, "image quality too low")
       ELSE IF view[2] < 500
       THEN Return(Nil, "unable to determine vehicle view with sufficient confidence")
       ELSE IF lighting[2] < 500
       THEN Return(Nil, "unable to determine lighting conditions with sufficient confidence")
       ELSE Return([Image |-> img, View |-> view[1], Lighting |-> lighting[1],
                    QualityScore |-> quality],
                   NoError)

validateImageConsistency_NoQuality(img1, img2) ==
    IF img1.View # img2.View THEN "vehicle views do not match"
    ELSE IF img1.Lighting # img2.Lighting THEN "lighting conditions do not match"
    ELSE NoError

validateImageConsistency(img1, img2) ==
    IF img1.View # img2.View THEN "vehicle views do not match"
    ELSE IF img1.Lighting # img2.Lighting THEN "lighting conditions do not match"
    ELSE IF img1.QualityScore < 500 \/ img2.QualityScore < 500
    THEN "one or both images have insufficient quality"
    ELSE NoError

\* ------------------------------------------------------------------------
\* extractor: GeometricExtractor and LightPatternExtractor on an image
\* ------------------------------------------------------------------------
\* the values the loop over the frequency map can end with: Go iterates a
\* map in an unspecified order and the loop keeps the first value of the
\* highest count it meets, so every value of that count can be returned
Frequency(values, value) ==
    Cardinality({ k \in 1..Len(values) : values[k] = value })

findMostCommonValue(values) ==
    IF Len(values) = 0 THEN {0}
    ELSE { values[i] : i \in { k \in 1..Len(values) :
                                  \A j \in 1..Len(values) :
                                     Frequency(values, values[j])
                                       <= Frequency(values, values[k]) } }

\* the y-midpoints of the horizontal Hough lines, and the dividing lines a run
\* can find among them
findVehicleDividingLine(img) ==
    IF Len(img.horizontalLines) = 0 THEN {0}
    ELSE findMostCommonValue(img.horizontalLines)

calculateUpperLowerRatio(img, dividingLine) ==
    IF dividingLine > 0
    THEN Div(dividingLine, img.rows - dividingLine)
    ELSE Scale

\* dividingLine: what findVehicleDividingLine returned in this run
extractVehicleProportions(img, dividingLine) ==
    [WidthHeightRatio |-> Div(img.cols, img.rows),
     UpperLowerRatio |-> calculateUpperLowerRatio(img, dividingLine),
     LicensePlateRatio |-> Div(img.plateWidth, img.cols)]

HasCenter(point) == point.X > 0 /\ point.Y > 0

detectTaillightRegions(img) ==
    LET points == IF img.channels > 1 THEN img.redCenters ELSE << >>
    IN IF Len(points) = 0 THEN img.brightCenters ELSE points

extractFrontStructuralElements(img) ==
    [k \in 1..Len(img.headlights) |->
        [Type |-> "headlight", Position |-> img.headlights[k], Size |-> 100]]
    \o (IF HasCenter(img.grilleCenter)
        THEN << [Type |-> "grille", Position |-> img.grilleCenter, Size |-> 200] >>
        ELSE << >>)

extractRearStructuralElements(img) ==
    [k \in 1..Len(detectTaillightRegions(img)) |->
        [Type |-> "taillight", Position |-> detectTaillightRegions(img)[k],
         Size |-> 80]]
    \o (IF HasCenter(img.bumperLine)
        THEN << [Type |-> "bumper_line", Position |-> img.bumperLine,
                 Size |-> img.cols] >>
        ELSE << >>)

extractStructuralElements(img, view) ==
    IF view = ViewFront THEN extractFrontStructuralElements(img)
    ELSE IF view = ViewRear THEN extractRearStructuralElements(img)
    ELSE << >>

findFrontReferencePoints(img) ==
    img.headlights
    \o (IF HasCenter(img.grilleCenter) THEN << img.grilleCenter >> ELSE << >>)
    \o Corners(img.cols, img.rows)

\* the rear landmarks without the corners of the image
findRearReferencePoints_NoCorners(img) ==
    detectTaillightRegions(img)
    \o (IF HasCenter(img.bumperLine) THEN << img.bumperLine >> ELSE << >>)

findRearReferencePoints(img) ==
    detectTaillightRegions(img)
    \o (IF HasCenter(img.bumperLine) THEN << img.bumperLine >> ELSE << >>)
    \o Corners(img.cols, img.rows)

extractReferencePoints(img, view) ==
    IF view = ViewFront THEN findFrontReferencePoints(img)
    ELSE IF view = ViewRear THEN findRearReferencePoints(img)
    ELSE << >>

ExtractGeometricFeatures(img, view, dividingLine) ==
    [VehicleProportions |-> extractVehicleProportions(img, dividingLine),
     StructuralElements |-> extractStructuralElements(img, view),
     ReferencePoints |-> extractReferencePoints(img, view)]

classifyLightShape(region) ==
    IF region.cols * 10 > region.rows * 15 THEN ShapeRectangular
    ELSE IF region.cols * 10 < region.rows * 7 THEN ShapeRectangular
    ELSE region.contourShape

calculateLightIntensity(region) == (128 * Scale) \div 255

analyzeLightElements(lightRegions, lightType) ==
    [k \in 1..Len(lightRegions) |->
        [Type |-> lightType,
         Position |-> Point2D((k - 1) * 100, 50),
         Shape |-> classifyLightShape(lightRegions[k]),
         Size |-> lightRegions[k].cols * lightRegions[k].rows,
         Intensity |-> calculateLightIntensity(lightRegions[k])]]

\* LightPatternFeatures{}: nil slices and a zero configuration
NoLightPatterns ==
    [LightElements |-> << >>,
     PatternSignature |-> << >>,
     LightConfiguration |-> [NumElements |-> 0, Symmetry |-> 0, Spacing |-> 0]]

ExtractLightPatterns(img, view, lighting) ==
    IF view = ViewFront
    THEN LightPatternsOf(analyzeLightElements(img.lightRegions, "TypeHeadlight"))
    ELSE IF view = ViewRear
    THEN LightPatternsOf(analyzeLightElements(img.lightRegions, "TypeTaillight"))
    ELSE NoLightPatterns

\* calculateExtractionQuality that counts the reference points only
calculateExtractionQuality_GeometryOnly(features) ==
    (IF Len(features.GeometricFeatures.ReferencePoints) > 0 THEN 800 ELSE 0) \div 3

\* calculateExtractionQuality averaging over the components that are present
calculateExtractionQuality_OverPresent(features) ==
    LET geometric == Len(features.GeometricFeatures.ReferencePoints) > 0
        lights == Len(features.LightPatterns.LightElements) > 0
        specific == features.DaylightFeatures # Nil \/ features.InfraredFeatures # Nil
        components == Cardinality({ k \in 1..3 : <<geometric, lights, specific>>[k] })
    IN IF components = 0 THEN 0
       ELSE ((IF geometric THEN 800 ELSE 0) + (IF lights THEN 900 ELSE 0)
               + (IF specific THEN 700 ELSE 0)) \div components

calculateExtractionQuality(features) ==
    ((IF Len(features.GeometricFeatures.ReferencePoints) > 0 THEN 800 ELSE 0)
       + (IF Len(features.LightPatterns.LightElements) > 0 THEN 900 ELSE 0)
       + (IF features.DaylightFeatures # Nil \/ features.InfraredFeatures # Nil
          THEN 700 ELSE 0)) \div 3

\* the extractors extractFeatures invokes on an image, in order
extractorsInvoked(vehicleImg) ==
    << "ExtractGeometricFeatures", "ExtractLightPatterns", "extractBumperFeatures" >>
    \o (IF vehicleImg.Lighting = LightingDaylight THEN << "extractDaylightFeatures" >>
        ELSE IF vehicleImg.Lighting = LightingInfrared
        THEN << "extractInfraredFeatures" >>
        ELSE << >>)

\* extractFeatures that extracts both lighting-specific feature sets
extractFeatures_BothSets(vehicleImg, dividingLine) ==
    [View |-> vehicleImg.View,
     Lighting |-> vehicleImg.Lighting,
     GeometricFeatures |->
         ExtractGeometricFeatures(vehicleImg.Image, vehicleImg.View, dividingLine),
     LightPatterns |->
         ExtractLightPatterns(vehicleImg.Image, vehicleImg.View, vehicleImg.Lighting),
     BumperFeatures |-> extractBumperFeatures,
     DaylightFeatures |-> extractDaylightFeatures,
     InfraredFeatures |-> extractInfraredFeatures,
     ExtractionQuality |-> 800]

extractFeatures(vehicleImg, dividingLine) ==
    LET partial ==
          [View |-> vehicleImg.View,
           Lighting |-> vehicleImg.Lighting,
           GeometricFeatures |->
               ExtractGeometricFeatures(vehicleImg.Image, vehicleImg.View,
                                        dividingLine),
           LightPatterns |->
               ExtractLightPatterns(vehicleImg.Image, vehicleImg.View,
                                    vehicleImg.Lighting),
           BumperFeatures |-> extractBumperFeatures,
           DaylightFeatures |->
               IF vehicleImg.Lighting = LightingDaylight
               THEN extractDaylightFeatures ELSE Nil,
           InfraredFeatures |->
               IF vehicleImg.Lighting = LightingInfrared
               THEN extractInfraredFeatures ELSE Nil,
           ExtractionQuality |-> 0]
    IN [partial EXCEPT !.ExtractionQuality = calculateExtractionQuality(partial)]

\* ------------------------------------------------------------------------
\* photographs handed to the service
\* ------------------------------------------------------------------------
MaxLightRegions == 2

\* what the detectors find on four kinds of photograph
ProfileSet == {"front", "rear", "ambiguous", "blank"}

ImageOf(cols, stddev, profile, lights) ==
    LET rows == (cols * 3) \div 4
        front == profile \in {"front", "ambiguous"}
        rear == profile = "rear"
    IN [channels |-> 3, cols |-> cols, rows |-> rows,
        histogramStddev |-> stddev,
        \* what MeanStdDev measures on the Laplacian and on the difference
        \* to the Gaussian blur: both vanish on a uniform image
        laplacianVariance |-> IF stddev = 0 THEN 0 ELSE 400,
        meanResidual |-> IF stddev = 0 THEN 0 ELSE 10,
        headlights |->
            IF front
            THEN << Point2D(cols \div 6, rows \div 5),
                    Point2D((cols * 5) \div 6, rows \div 5) >>
            ELSE << >>,
        grilleLines |-> IF profile = "front" THEN 4 ELSE 0,
        grilleCenter |->
            IF profile = "front" THEN Point2D(cols \div 2, rows \div 2)
            ELSE Point2D(0, 0),
        redCenters |->
            IF rear
            THEN << Point2D(cols \div 8, rows \div 2),
                    Point2D((cols * 7) \div 8, rows \div 2) >>
            ELSE IF profile = "ambiguous"
            THEN << Point2D(cols \div 8, rows \div 2) >>
            ELSE << >>,
        brightCenters |-> << >>,
        verticalRegions |-> 0,
        bumperLines |-> IF rear THEN 3 ELSE IF profile = "ambiguous" THEN 1 ELSE 0,
        bumperLine |->
            IF rear THEN Point2D(cols \div 2, (rows * 5) \div 6) ELSE Point2D(0, 0),
        \* y-midpoints of the horizontal lines HoughLinesP finds: the bumper
        \* line and the bonnet line, each found twice
        horizontalLines |->
            IF lights > 0
            THEN << (rows * 2) \div 3, rows \div 2, (rows * 2) \div 3, rows \div 2 >>
            ELSE << >>,
        plateWidth |-> IF lights > 0 THEN cols \div 5 ELSE 0,
        lightRegions |->
            [k \in 1..lights |->
                [cols |-> 20, rows |-> 20,
                 contourShape |-> IF k = 1 THEN ShapeRound ELSE ShapeAngular]]]

ImageSet ==
    { ImageOf(size[1], size[2], profile, lights) :
        size \in {<<640, 64>>, <<640, 0>>, <<64, 0>>},
        profile \in ProfileSet,
        lights \in {0, MaxLightRegions} }

\* a path or a base64 string: what loading it gives, and the image it holds
Source(kind, img) == [kind |-> kind, image |-> img]

BlankImage == ImageOf(640, 0, "blank", 0)

FileSources ==
    { Source("ok", img) : img \in ImageSet } \cup { Source("empty", BlankImage) }

Base64Sources ==
    FileSources \cup { Source("badBase64", BlankImage), Source("badImage", BlankImage) }

\* ------------------------------------------------------------------------
\* state
\* ------------------------------------------------------------------------
VARIABLES
    mode,         \* the entry point being exercised
    pc,           \* position of the call
    source1,      \* the two paths or base64 strings given to the service
    source2,
    vehicleImg1,  \* *VehicleImage of processImage, Nil before
    vehicleImg2,
    features1,    \* the two VehicleFeatures
    features2,
    result,       \* *ComparisonResult of the call (Nil before it returns)
    err,          \* error of the call (NoError before it returns)
    trace,        \* the functions the call has invoked so far, in order
    openMats,     \* the image buffers the call created and has not closed
    deferred,     \* the buffers a defer of the call will close on return
    original,     \* a result as it was before ValidateAndSanitize
    gray1,        \* two grayscale photographs, their plate, and the
    gray2,        \* reflectivity maps extracted from them
    plate,
    map1,
    map2,
    mat,          \* the gocv.Mat given to a preprocessor or extractor function
    out           \* what that function returned (Nil before it returns)

serviceVars ==
    <<source1, source2, vehicleImg1, vehicleImg2, trace, openMats, deferred>>

reflectVars == <<gray1, gray2, plate, map1, map2>>

callVars == <<mat, out>>

vars == <<mode, pc, source1, source2, vehicleImg1, vehicleImg2, features1,
          features2, result, err, trace, original, gray1, gray2, plate, map1, map2,
          mat, out, openMats, deferred>>

NoService ==
    /\ source1 = Nil /\ source2 = Nil
    /\ vehicleImg1 = Nil /\ vehicleImg2 = Nil
    /\ trace = << >>
    /\ openMats = {} /\ deferred = {}

NoReflect ==
    /\ gray1 = Nil /\ gray2 = Nil /\ plate = Nil
    /\ map1 = << >> /\ map2 = << >>

NoFeatures == features1 = Nil /\ features2 = Nil

NoCall == mat = Nil /\ out = Nil

\* the deferred Close calls run when the entry point returns
RunDefers ==
    /\ openMats' = openMats \ deferred
    /\ deferred' = {}

\* a Mat is created and its Close is deferred
CreateDeferred(mats) ==
    /\ openMats' = openMats \cup mats
    /\ deferred' = deferred \cup mats

\* return nil, fmt.Errorf(message)
Fail_KeepsResult(message) ==
    /\ result' = ResultOf([k \in 1..9 |-> 0])
    /\ err' = message
    /\ pc' = "returned"

\* return of the pair a function call gave
Returns(ret) ==
    /\ result' = ret.result
    /\ err' = ret.err
    /\ pc' = "returned"

Fail(message) ==
    /\ result' = Nil
    /\ err' = message
    /\ pc' = "returned"

\* ------------------------------------------------------------------------
\* ComparisonEngine.CompareVehicles called directly
\* ------------------------------------------------------------------------
InitEngine ==
    /\ mode = "engine"
    /\ pc = "start"
    /\ \E pair \in FeaturePairs :
          /\ features1 = pair[1]
          /\ features2 = pair[2]
    /\ result = Nil
    /\ err = NoError
    /\ original = Nil
    /\ NoService
    /\ NoReflect
    /\ NoCall

CallCompareVehicles ==
    /\ mode = "engine"
    /\ pc = "start"
    /\ Returns(CompareVehicles(features1, features2))
    /\ UNCHANGED <<mode, features1, features2, original>>
    /\ UNCHANGED serviceVars
    /\ UNCHANGED reflectVars
    /\ UNCHANGED callVars

EngineReturned == mode = "engine" /\ pc = "returned"

\* ------------------------------------------------------------------------
\* VehicleComparisonService: the two entry points and compareImages
\* ------------------------------------------------------------------------
ServiceModes == {"file", "base64"}

\* the entry points, and compareImages entered after validateImageConsistency
\* has accepted two VehicleImages
PipelineModes == ServiceModes \cup {"validated"}

InitService ==
    /\ mode \in ServiceModes
    /\ pc = "start"
    /\ source1 \in (IF mode = "file" THEN FileSources ELSE Base64Sources)
    /\ source2 \in (IF mode = "file" THEN FileSources ELSE Base64Sources)
    /\ vehicleImg1 = Nil /\ vehicleImg2 = Nil
    /\ NoFeatures
    /\ result = Nil
    /\ err = NoError
    /\ trace = << >>
    /\ openMats = {} /\ deferred = {}
    /\ original = Nil
    /\ NoReflect
    /\ NoCall

\* CompareVehicleImages up to the call of compareImages
loadError(s1, s2) ==
    IF s1.kind # "ok" \/ s2.kind # "ok"
    THEN "failed to load one or both images"
    ELSE NoError

CompareVehicleImages ==
    /\ mode = "file"
    /\ pc = "start"
    /\ trace' = trace \o << "IMRead", "IMRead" >>
    /\ IF loadError(source1, source2) # NoError
       THEN /\ Fail(loadError(source1, source2))
            /\ UNCHANGED <<openMats, deferred>>
       ELSE /\ pc' = "process1"
            /\ CreateDeferred({"img1", "img2"})
            /\ UNCHANGED <<result, err>>
    /\ UNCHANGED <<mode, source1, source2, vehicleImg1, vehicleImg2,
                   features1, features2, original>>
    /\ UNCHANGED reflectVars
    /\ UNCHANGED callVars

\* CompareVehicleImagesFromBase64 that looks at the first string only
decodeError_FirstOnly(s1, s2) ==
    IF s1.kind = "badBase64" THEN "failed to decode image1 base64"
    ELSE IF s1.kind = "badImage" THEN "failed to decode image1"
    ELSE IF s1.kind = "empty" THEN "failed to decode one or both images"
    ELSE NoError

\* CompareVehicleImagesFromBase64 up to the call of compareImages
decodeError(s1, s2) ==
    IF s1.kind = "badBase64" THEN "failed to decode image1 base64"
    ELSE IF s2.kind = "badBase64" THEN "failed to decode image2 base64"
    ELSE IF s1.kind = "badImage" THEN "failed to decode image1"
    ELSE IF s2.kind = "badImage" THEN "failed to decode image2"
    ELSE IF s1.kind = "empty" \/ s2.kind = "empty"
    THEN "failed to decode one or both images"
    ELSE NoError

\* the Mats that exist without a deferred Close when the entry point returns
\* the error: the two defer statements follow both calls of IMDecode
undeferredAt(error) ==
    IF error = "failed to decode image2" THEN {"img1"} ELSE {}

CompareVehicleImagesFromBase64 ==
    /\ mode = "base64"
    /\ pc = "start"
    /\ trace' = trace \o << "DecodeString", "IMDecode" >>
    /\ IF decodeError(source1, source2) # NoError
       THEN /\ Fail(decodeError(source1, source2))
            /\ openMats' = undeferredAt(decodeError(source1, source2))
            /\ UNCHANGED deferred
       ELSE /\ pc' = "process1"
            /\ CreateDeferred({"img1", "img2"})
            /\ UNCHANGED <<result, err>>
    /\ UNCHANGED <<mode, source1, source2, vehicleImg1, vehicleImg2,
                   features1, features2, original>>
    /\ UNCHANGED reflectVars
    /\ UNCHANGED callVars

ProcessImage1 ==
    /\ mode \in ServiceModes
    /\ pc = "process1"
    /\ trace' = Append(trace, "processImage")
    /\ LET ret == processImage(source1.image)
       IN IF ret.err # NoError
          THEN /\ Fail("failed to process image 1: " \o ret.err)
               /\ RunDefers
               /\ UNCHANGED vehicleImg1
          ELSE /\ vehicleImg1' = ret.result
               /\ CreateDeferred({"vehicleImg1.Image"})
               /\ pc' = "process2"
               /\ UNCHANGED <<result, err>>
    /\ UNCHANGED <<mode, source1, source2, vehicleImg2, features1, features2,
                   original>>
    /\ UNCHANGED reflectVars
    /\ UNCHANGED callVars

ProcessImage2 ==
    /\ mode \in ServiceModes
    /\ pc = "process2"
    /\ trace' = Append(trace, "processImage")
    /\ LET ret == processImage(source2.image)
       IN IF ret.err # NoError
          THEN /\ Fail("failed to process image 2: " \o ret.err)
               /\ RunDefers
               /\ UNCHANGED vehicleImg2
          ELSE /\ vehicleImg2' = ret.result
               /\ CreateDeferred({"vehicleImg2.Image"})
               /\ pc' = "validate"
               /\ UNCHANGED <<result, err>>
    /\ UNCHANGED <<mode, source1, source2, vehicleImg1, features1, features2,
                   original>>
    /\ UNCHANGED reflectVars
    /\ UNCHANGED callVars

ValidateConsistency ==
    /\ mode \in ServiceModes
    /\ pc = "validate"
    /\ trace' = Append(trace, "validateImageConsistency")
    /\ IF validateImageConsistency(vehicleImg1, vehicleImg2) # NoError
       THEN /\ Fail(validateImageConsistency(vehicleImg1, vehicleImg2))
            /\ RunDefers
       ELSE /\ pc' = "extract1"
            /\ UNCHANGED <<result, err, openMats, deferred>>
    /\ UNCHANGED <<mode, source1, source2, vehicleImg1, vehicleImg2,
                   features1, features2, original>>
    /\ UNCHANGED reflectVars
    /\ UNCHANGED callVars

ExtractFeatures1 ==
    /\ mode \in PipelineModes
    /\ pc = "extract1"
    /\ trace' = trace \o << "extractFeatures" >> \o extractorsInvoked(vehicleImg1)
    /\ \E dividingLine \in findVehicleDividingLine(vehicleImg1.Image) :
          features1' = extractFeatures(vehicleImg1, dividingLine)
    /\ UNCHANGED <<openMats, deferred>>
    /\ pc' = "extract2"
    /\ UNCHANGED <<mode, source1, source2, vehicleImg1, vehicleImg2,
                   features2, result, err, original>>
    /\ UNCHANGED reflectVars
    /\ UNCHANGED callVars

ExtractFeatures2 ==
    /\ mode \in PipelineModes
    /\ pc = "extract2"
    /\ trace' = trace \o << "extractFeatures" >> \o extractorsInvoked(vehicleImg2)
    /\ \E dividingLine \in findVehicleDividingLine(vehicleImg2.Image) :
          features2' = extractFeatures(vehicleImg2, dividingLine)
    /\ UNCHANGED <<openMats, deferred>>
    /\ pc' = "compare"
    /\ UNCHANGED <<mode, source1, source2, vehicleImg1, vehicleImg2,
                   features1, result, err, original>>
    /\ UNCHANGED reflectVars
    /\ UNCHANGED callVars

\* milliseconds a call may take
MaxElapsedMs == 1

\* compareImages from the call of the engine to its return
withProcessingInfo(ret, info) ==
    IF ret.err # NoError
    THEN Return(Nil, "failed to compare vehicles: " \o ret.err)
    ELSE Return([ret.result EXCEPT !.ProcessingInfo = info], NoError)

CompareFeatures ==
    /\ mode \in PipelineModes
    /\ pc = "compare"
    /\ trace' = Append(trace, "CompareVehicles")
    /\ RunDefers
    /\ \E elapsed \in 0..MaxElapsedMs :
          Returns(withProcessingInfo(
              CompareVehicles(features1, features2),
              [ProcessingTimeMs |-> elapsed,
               Image1Quality |-> vehicleImg1.QualityScore,
               Image2Quality |-> vehicleImg2.QualityScore,
               AlignmentQuality |-> 0,
               ViewConsistency |-> vehicleImg1.View = vehicleImg2.View,
               LightingConsistency |->
                   vehicleImg1.Lighting = vehicleImg2.Lighting]))
    /\ UNCHANGED <<mode, source1, source2, vehicleImg1, vehicleImg2,
                   features1, features2, original>>
    /\ UNCHANGED reflectVars
    /\ UNCHANGED callVars

\* cmd/vehicle-compare main, after the service has returned
MainHandleResult ==
    /\ mode \in ServiceModes
    /\ pc = "returned"
    /\ IF err # NoError
       THEN /\ pc' = "exit"
            /\ UNCHANGED <<result, original, trace>>
       ELSE /\ original' = result
            /\ result' = ValidateAndSanitize(result)
            /\ trace' = Append(trace, "ValidateAndSanitize")
            /\ pc' = "printed"
    /\ UNCHANGED <<mode, source1, source2, vehicleImg1, vehicleImg2,
                   features1, features2, err>>
    /\ UNCHANGED reflectVars
    /\ UNCHANGED callVars
    /\ UNCHANGED <<openMats, deferred>>

\* ------------------------------------------------------------------------
\* ValidateAndSanitize called on an arbitrary result
\* ------------------------------------------------------------------------
InitSanitize ==
    /\ mode = "sanitize"
    /\ pc = "start"
    /\ result \in UnsanitizedResults
    /\ original = Nil
    /\ err = NoError
    /\ NoFeatures
    /\ NoService
    /\ NoReflect
    /\ NoCall

CallValidateAndSanitize ==
    /\ mode = "sanitize"
    /\ pc = "start"
    /\ original' = result
    /\ result' = ValidateAndSanitize(result)
    /\ pc' = "sanitized"
    /\ UNCHANGED <<mode, features1, features2, err>>
    /\ UNCHANGED serviceVars
    /\ UNCHANGED reflectVars
    /\ UNCHANGED callVars

\* ------------------------------------------------------------------------
\* extractReflectivityMap called on two photographs of one plate position
\* ------------------------------------------------------------------------
InitReflect ==
    /\ mode = "reflect"
    /\ pc = "start"
    /\ \E pattern \in BackgroundSet, bounds \in PlateSet,
          fill1 \in PlateFills, fill2 \in PlateFills :
          /\ plate = bounds
          /\ gray1 = GrayImage(pattern, bounds, fill1)
          /\ gray2 = GrayImage(pattern, bounds, fill2)
    /\ map1 = << >> /\ map2 = << >>
    /\ result = Nil
    /\ original = Nil
    /\ err = NoError
    /\ NoFeatures
    /\ NoService
    /\ NoCall

CallExtractReflectivityMap ==
    /\ mode = "reflect"
    /\ pc = "start"
    /\ map1' = extractReflectivityMap(
                   gray1, calculateSurroundingRegion(plate, gray1.rows, gray1.cols),
                   plate)
    /\ map2' = extractReflectivityMap(
                   gray2, calculateSurroundingRegion(plate, gray2.rows, gray2.cols),
                   plate)
    /\ pc' = "mapped"
    /\ UNCHANGED <<mode, features1, features2, result, err, original,
                   gray1, gray2, plate>>
    /\ UNCHANGED serviceVars
    /\ UNCHANGED callVars

\* ------------------------------------------------------------------------
\* ViewLightingClassifier.ClassifyLighting called on an arbitrary image
\* ------------------------------------------------------------------------
\* an image as the three measurements of ClassifyLighting see it: MeanStdDev
\* of the grayscale image, of its Laplacian and of the saturation channel
LightingMats ==
    [channels : {1, 3},
     meanBrightness : {40, 128, 200},
     laplacianStddev : {20, 50, 90},
     meanSaturation : {0, 10, 128}]

InitLighting ==
    /\ mode = "lighting"
    /\ pc = "start"
    /\ mat \in LightingMats
    /\ out = Nil
    /\ result = Nil
    /\ original = Nil
    /\ err = NoError
    /\ NoFeatures
    /\ NoService
    /\ NoReflect

CallClassifyLighting ==
    /\ mode = "lighting"
    /\ pc = "start"
    /\ out' = [lighting |-> ClassifyLighting(mat)[1],
               confidence |-> ClassifyLighting(mat)[2]]
    /\ pc' = "returned"
    /\ UNCHANGED <<mode, mat, features1, features2, result, err, original>>
    /\ UNCHANGED serviceVars
    /\ UNCHANGED reflectVars

LightingReturned == mode = "lighting" /\ pc = "returned"

\* ------------------------------------------------------------------------
\* LicensePlateExtractor.DetectLicensePlate called on an arbitrary image
\* ------------------------------------------------------------------------
InitPlate ==
    /\ mode = "plate"
    /\ pc = "start"
    /\ mat \in PlateMats
    /\ out = Nil
    /\ result = Nil
    /\ original = Nil
    /\ err = NoError
    /\ NoFeatures
    /\ NoService
    /\ NoReflect

CallDetectLicensePlate ==
    /\ mode = "plate"
    /\ pc = "start"
    /\ out' = DetectLicensePlate(mat)
    /\ pc' = "returned"
    /\ UNCHANGED <<mode, mat, features1, features2, result, err, original>>
    /\ UNCHANGED serviceVars
    /\ UNCHANGED reflectVars

PlateReturned == mode = "plate" /\ pc = "returned"

\* ------------------------------------------------------------------------
\* IRSignatureExtractor.calculateSurroundingRegion called with plate bounds
\* that lie inside an image of imgWidth x imgHeight pixels
\* ------------------------------------------------------------------------
SurroundSide == 12

PlateSides == {2, 4, 5}

SurroundCalls ==
    { [plateBounds |-> Bounds(x, y, w, h), imgHeight |-> rows, imgWidth |-> cols] :
        x \in 0..SurroundSide, y \in {0, 1, 3}, w \in PlateSides, h \in {2, 4},
        rows \in {SurroundSide - 4}, cols \in {SurroundSide, SurroundSide + 4} }

InitSurround ==
    /\ mode = "surround"
    /\ pc = "start"
    /\ \E call \in SurroundCalls :
          /\ call.plateBounds.X + call.plateBounds.Width <= call.imgWidth
          /\ call.plateBounds.Y + call.plateBounds.Height <= call.imgHeight
          /\ mat = call
    /\ out = Nil
    /\ result = Nil
    /\ original = Nil
    /\ err = NoError
    /\ NoFeatures
    /\ NoService
    /\ NoReflect

CallCalculateSurroundingRegion ==
    /\ mode = "surround"
    /\ pc = "start"
    /\ out' = calculateSurroundingRegion(mat.plateBounds, mat.imgHeight, mat.imgWidth)
    /\ pc' = "returned"
    /\ UNCHANGED <<mode, mat, features1, features2, result, err, original>>
    /\ UNCHANGED serviceVars
    /\ UNCHANGED reflectVars

SurroundReturned == mode = "surround" /\ pc = "returned"

\* ------------------------------------------------------------------------
\* the comparison functions of the ComparisonEngine called one at a time,
\* each on a pair of arguments: mat holds the function and its arguments,
\* out the float64 it returns
\* ------------------------------------------------------------------------
StructuralLists ==
    {<< >>, GeoDegenerate.StructuralElements}
        \cup { GeoDetected(d).StructuralElements : d \in Offsets }

LightLists ==
    {<< >>, LightDegenerate.LightElements}
        \cup { LightDetected(d).LightElements : d \in Offsets }

ShadowLists ==
    { << >>,
      << Point2D(20, 20) >>,
      << Point2D(600, 400) >>,
      << Point2D(25, 20), Point2D(30, 30) >>,
      << Point2D(20, 20), Point2D(600, 400) >>,
      << Point2D(20, 20), Point2D(22, 20), Point2D(20, 24) >> }

\* grids of 2x2, 1x2, 2x1 and 3x2 cells, grids whose rows have different
\* lengths, and a grid of two rows without cells
ReflectivityMaps ==
    { << >>,
      IRSignatureA.ReflectivityMap,
      IRSignatureB.ReflectivityMap,
      IRSignatureC.ReflectivityMap,
      << << 1000, 1000 >> >>,
      << << 1000 >>, << 1000 >> >>,
      << << 1000, 1000 >>, << 1000, 1000 >>, << 1000, 1000 >> >>,
      << << 1000, 1000 >>, << 1000 >> >>,
      << << 900 >>, << 1000, 800 >> >>,
      << << >>, << >> >> }

ProportionSet ==
    { g.VehicleProportions : g \in GeoSet }
        \cup { [WidthHeightRatio |-> 1500, UpperLowerRatio |-> 800,
                LicensePlateRatio |-> r] : r \in {0, 300} }
        \cup { [WidthHeightRatio |-> 0, UpperLowerRatio |-> 0,
                LicensePlateRatio |-> 0] }

SignatureSet ==
    { << >>, << 0, 0, 0 >>, << 1000, 0, 0 >>, << 300, 700, 500 >>,
      << 600, 400, 800 >>, << -500, 200, 0 >>, << 1000, 0 >>, << 0, 0 >>,
      << 1000, 100, 0, 0, 0, 0 >> }

ArgumentsOf(fn) ==
    IF fn = "compareStructuralElements" THEN StructuralLists
    ELSE IF fn = "compareLightElements" THEN LightLists
    ELSE IF fn = "compareShadowPatterns" THEN ShadowLists
    ELSE IF fn = "compareReflectivityMaps" THEN ReflectivityMaps
    ELSE IF fn = "compareVehicleProportions" THEN ProportionSet
    ELSE SignatureSet

ComparisonFunctions ==
    {"compareStructuralElements", "compareLightElements", "compareShadowPatterns",
     "compareReflectivityMaps", "compareVehicleProportions", "compareSignatures"}

InitComparison ==
    /\ mode = "comparison"
    /\ pc = "start"
    /\ \E fn \in ComparisonFunctions :
          \E a \in ArgumentsOf(fn), b \in ArgumentsOf(fn) :
             mat = [fn |-> fn, a |-> a, b |-> b]
    /\ out = Nil
    /\ result = Nil
    /\ original = Nil
    /\ err = NoError
    /\ NoFeatures
    /\ NoService
    /\ NoReflect

\* the call of the function named fn returns value
ComparisonReturns(fn, value) ==
    /\ mode = "comparison"
    /\ pc = "start"
    /\ mat.fn = fn
    /\ out' = value
    /\ pc' = "returned"
    /\ UNCHANGED <<mode, mat, features1, features2, result, err, original>>
    /\ UNCHANGED serviceVars
    /\ UNCHANGED reflectVars

CallCompareStructuralElements ==
    /\ mode = "comparison"
    /\ mat.fn = "compareStructuralElements"
    /\ ComparisonReturns("compareStructuralElements",
                         compareStructuralElements(mat.a, mat.b))

CallCompareLightElements ==
    /\ mode = "comparison"
    /\ mat.fn = "compareLightElements"
    /\ ComparisonReturns("compareLightElements", compareLightElements(mat.a, mat.b))

CallCompareShadowPatterns ==
    /\ mode = "comparison"
    /\ mat.fn = "compareShadowPatterns"
    /\ ComparisonReturns("compareShadowPatterns", compareShadowPatterns(mat.a, mat.b))

CallCompareReflectivityMaps ==
    /\ mode = "comparison"
    /\ mat.fn = "compareReflectivityMaps"
    /\ ComparisonReturns("compareReflectivityMaps",
                         compareReflectivityMaps(mat.a, mat.b))

CallCompareVehicleProportions ==
    /\ mode = "comparison"
    /\ mat.fn = "compareVehicleProportions"
    /\ ComparisonReturns("compareVehicleProportions",
                         compareVehicleProportions(mat.a, mat.b))

CallCompareSignatures ==
    /\ mode = "comparison"
    /\ mat.fn = "compareSignatures"
    /\ ComparisonReturns("compareSignatures", compareSignatures(mat.a, mat.b))

ComparisonReturned(fn) ==
    mode = "comparison" /\ pc = "returned" /\ mat.fn = fn

\* ------------------------------------------------------------------------
\* GeometricExtractor.ExtractGeometricFeatures called with an image and any
\* value of VehicleView
\* ------------------------------------------------------------------------
InitGeometric ==
    /\ mode = "geometric"
    /\ pc = "start"
    /\ \E image \in ImageSet, view \in VehicleView :
          mat = [img |-> image, view |-> view]
    /\ out = Nil
    /\ result = Nil
    /\ original = Nil
    /\ err = NoError
    /\ NoFeatures
    /\ NoService
    /\ NoReflect

CallExtractGeometricFeatures ==
    /\ mode = "geometric"
    /\ pc = "start"
    /\ \E dividingLine \in findVehicleDividingLine(mat.img) :
          out' = ExtractGeometricFeatures(mat.img, mat.view, dividingLine)
    /\ pc' = "returned"
    /\ UNCHANGED <<mode, mat, features1, features2, result, err, original>>
    /\ UNCHANGED serviceVars
    /\ UNCHANGED reflectVars

GeometricReturned == mode = "geometric" /\ pc = "returned"

\* ------------------------------------------------------------------------
\* compareImages from the point where two VehicleImages have been accepted:
\* what processImage returns has a lighting of confidence at least 0.5,
\* that is Daylight or Infrared, and validateImageConsistency found no error
\* ------------------------------------------------------------------------
VehicleImageOf(image, lighting) ==
    [Image |-> image, View |-> ClassifyView(image)[1], Lighting |-> lighting,
     QualityScore |-> AssessImageQuality(image)]

AcceptedImages ==
    { image \in ImageSet :
        /\ AssessImageQuality(image) >= 500
        /\ ClassifyView(image)[2] >= 500 }

InitValidated ==
    /\ mode = "validated"
    /\ pc = "extract1"
    /\ \E image1 \in AcceptedImages, image2 \in AcceptedImages,
          lighting \in {LightingDaylight, LightingInfrared} :
          /\ vehicleImg1 = VehicleImageOf(image1, lighting)
          /\ vehicleImg2 = VehicleImageOf(image2, lighting)
          /\ validateImageConsistency(vehicleImg1, vehicleImg2) = NoError
    /\ source1 = Nil /\ source2 = Nil
    /\ trace = << >>
    /\ openMats = {"img1", "img2", "vehicleImg1.Image", "vehicleImg2.Image"}
    /\ deferred = openMats
    /\ NoFeatures
    /\ result = Nil
    /\ err = NoError
    /\ original = Nil
    /\ NoReflect
    /\ NoCall

ValidatedReturned == mode = "validated" /\ pc = "returned"

\* ------------------------------------------------------------------------
\* specification
\* ------------------------------------------------------------------------
Init ==
    \/ InitEngine \/ InitService \/ InitSanitize \/ InitReflect
    \/ InitLighting \/ InitPlate \/ InitValidated \/ InitSurround
    \/ InitComparison \/ InitGeometric

Next ==
    \/ CallCompareVehicles
    \/ CompareVehicleImages
    \/ CompareVehicleImagesFromBase64
    \/ ProcessImage1
    \/ ProcessImage2
    \/ ValidateConsistency
    \/ ExtractFeatures1
    \/ ExtractFeatures2
    \/ CompareFeatures
    \/ MainHandleResult
    \/ CallValidateAndSanitize
    \/ CallExtractReflectivityMap
    \/ CallClassifyLighting
    \/ CallDetectLicensePlate
    \/ CallCalculateSurroundingRegion
    \/ CallCompareStructuralElements
    \/ CallCompareLightElements
    \/ CallCompareShadowPatterns
    \/ CallCompareReflectivityMaps
    \/ CallCompareVehicleProportions
    \/ CallCompareSignatures
    \/ CallExtractGeometricFeatures

Spec == Init /\ [][Next]_vars

ServiceReturned == mode \in ServiceModes /\ pc = "returned"

\* ------------------------------------------------------------------------
\* properties
\* ------------------------------------------------------------------------
SanitizeReturned ==
    \/ mode = "sanitize" /\ pc = "sanitized"
    \/ mode \in ServiceModes /\ pc = "printed"

ReflectReturned == mode = "reflect" /\ pc = "mapped"

LabelsDiffer ==
    features1.View # features2.View \/ features1.Lighting # features2.Lighting

\* C1: CompareVehicles returns an error and no result whenever the two feature
\* sets differ in View or in Lighting, and a result and no error for every
\* pair whose View and Lighting are both equal.
C1_LabelMismatchIsError ==
    EngineReturned =>
        IF LabelsDiffer
        THEN err # NoError /\ result = Nil
        ELSE err = NoError /\ result # Nil

C1_Witness ==
    /\ EngineReturned
    /\ features1.View = features2.View
    /\ features1.Lighting # features2.Lighting
    /\ err = "cannot compare different lighting conditions"
    /\ result = Nil

\* a successful return that reports different vehicles with high confidence
IsFraudSignal(ret) ==
    /\ ret.err = NoError
    /\ ~ret.result.IsSameVehicle
    /\ ret.result.ConfidenceLevel = ConfidenceHigh

\* C2: some pair of feature sets with equal view and lighting makes
\* CompareVehicles return IsSameVehicle = FALSE together with
\* ConfidenceLevel = High.
C2_FraudSignalProducible ==
    \E pair \in PairsDaylight \cup PairsInfrared :
        IsFraudSignal(CompareVehicles(pair[1], pair[2]))

\* C3: two infrared feature sets whose IR signatures have nothing in common
\* (thermal similarity 0) are never reported as the same vehicle, whatever
\* the geometric, light-pattern and bumper scores are.
C3_DissimilarIRNeverSame ==
    ( /\ EngineReturned
      /\ err = NoError
      /\ features1.Lighting = LightingInfrared
      /\ features1.InfraredFeatures # Nil
      /\ features2.InfraredFeatures # Nil
      /\ features1.InfraredFeatures.IRSignature # Nil
      /\ features2.InfraredFeatures.IRSignature # Nil
      /\ result.DetailedScores.ThermalSimilarity = 0 )
    => ~result.IsSameVehicle

EqualOutsidePlate ==
    \A x \in 0..(gray1.cols - 1), y \in 0..(gray1.rows - 1) :
        InsidePlate(plate, x, y) \/ gray1.at[x, y] = gray2.at[x, y]

\* C4: two photographs that are equal outside the plate's bounding box and
\* differ only inside it give the same reflectivity map, cell by cell.
C4_MapIgnoresPlatePixels ==
    (ReflectReturned /\ EqualOutsidePlate) => map1 = map2

\* C5: IsSameVehicle is TRUE exactly when SimilarityScore is strictly above
\* the threshold of the lighting, 0.75 in daylight and 0.70 in infrared; a
\* similarity equal to the threshold gives FALSE.
C5_StrictThreshold ==
    (EngineReturned /\ err = NoError) =>
        (result.IsSameVehicle <=>
            result.SimilarityScore >
                (IF features1.Lighting = LightingDaylight THEN 750 ELSE 700))

C5_Witness ==
    /\ EngineReturned
    /\ err = NoError
    /\ features1.Lighting = LightingDaylight
    /\ result.SimilarityScore = 750
    /\ ~result.IsSameVehicle

InUnitRange(v) == ~IsNaN(v) /\ ~IsInf(v) /\ v >= 0 /\ v <= Scale

\* C6: for every pair CompareVehicles accepts, degenerate values included,
\* SimilarityScore and the five DetailedScores lie in [0,1].
C6_ScoresInUnitRange ==
    (EngineReturned /\ err = NoError) =>
        \A k \in 1..6 : InUnitRange(FloatFields(result)[k])

C6_Witness ==
    /\ EngineReturned
    /\ err = NoError
    /\ features1.GeometricFeatures = GeoDegenerate
    /\ features1.LightPatterns = LightDegenerate
    /\ features2.BumperFeatures = BumperC
    /\ features2.LightPatterns = LightDegenerate

InTrace(name) == \E k \in 1..Len(trace) : trace[k] = name

\* C8: on every successful call of either service entry point the result has
\* gone through ValidateAndSanitize before it is returned to the caller.
C8_SanitizedBeforeReturn ==
    (ServiceReturned /\ err = NoError) => InTrace("ValidateAndSanitize")

ExtractorNames ==
    {"ExtractGeometricFeatures", "ExtractLightPatterns", "extractBumperFeatures",
     "extractDaylightFeatures", "extractInfraredFeatures"}

ExtractionCount == Cardinality({ k \in 1..Len(trace) : trace[k] \in ExtractorNames })

\* quality at least 0.3 and both classification confidences at least 0.5
PassesGates(img) ==
    /\ AssessImageQuality(img) >= 300
    /\ ClassifyView(img)[2] >= 500
    /\ ClassifyLighting(img)[2] >= 500

ConsistencyHolds(img1, img2) ==
    /\ ClassifyView(img1)[1] = ClassifyView(img2)[1]
    /\ ClassifyLighting(img1)[1] = ClassifyLighting(img2)[1]
    /\ AssessImageQuality(img1) >= 500
    /\ AssessImageQuality(img2) >= 500

AllGatesPass ==
    /\ source1.kind = "ok" /\ source2.kind = "ok"
    /\ PassesGates(source1.image) /\ PassesGates(source2.image)
    /\ ConsistencyHolds(source1.image, source2.image)

\* C9: no feature extractor is invoked on either image unless both images
\* passed the quality gate and both confidence gates and the consistency
\* check succeeded; when one of them rejects, the call ends with an error
\* and no extraction has happened.
C9_FailFast ==
    mode \in ServiceModes =>
        /\ ExtractionCount > 0 => AllGatesPass
        /\ (pc = "returned" /\ ~AllGatesPass) => (err # NoError /\ ExtractionCount = 0)

C9_Witness ==
    /\ ServiceReturned
    /\ PassesGates(source1.image) /\ PassesGates(source2.image)
    /\ err = "one or both images have insufficient quality"
    /\ ExtractionCount = 0

\* C10: every call of CompareVehicleImages, CompareVehicleImagesFromBase64
\* and CompareVehicles returns exactly one of a result and an error.
C10_ResultXorError ==
    (EngineReturned \/ ServiceReturned) => (err # NoError <=> result = Nil)

C10_Witness ==
    /\ ServiceReturned
    /\ mode = "base64"
    /\ source1.kind = "ok"
    /\ source2.kind = "badImage"
    /\ err = "failed to decode image2"
    /\ result = Nil

\* the steps of compareImages: quality assessment and classification
\* (processImage), the consistency check, extraction and comparison
CoreNames ==
    {"processImage", "validateImageConsistency", "extractFeatures",
     "CompareVehicles"} \cup ExtractorNames

CoreStepCount == Cardinality({ k \in 1..Len(trace) : trace[k] \in CoreNames })

LoadFails == source1.kind # "ok" \/ source2.kind # "ok"

\* C11: when either input cannot be loaded or decoded (empty image, invalid
\* base64, bytes that are no image) the service returns an error, and no
\* quality assessment, classification, extraction or comparison step has
\* run on either image.
C11_LoadFailureBeforeCore ==
    (mode \in ServiceModes /\ LoadFails) =>
        /\ CoreStepCount = 0
        /\ pc \in {"start", "returned", "exit"}
        /\ pc # "start" => (err # NoError /\ result = Nil)

C11_Witness ==
    /\ ServiceReturned
    /\ mode = "base64"
    /\ source1.kind = "ok"
    /\ source2.kind = "badBase64"
    /\ err = "failed to decode image2 base64"
    /\ CoreStepCount = 0

\* strings.Contains
Contains(s, substr) ==
    \E k \in 1..(Len(s) - Len(substr) + 1) :
        SubSeq(s, k, k + Len(substr) - 1) = substr

\* the two images were classified and their views or their lighting differ
ClassifiedDifferently ==
    /\ vehicleImg1 # Nil /\ vehicleImg2 # Nil
    /\ \/ vehicleImg1.View # vehicleImg2.View
       \/ vehicleImg1.Lighting # vehicleImg2.Lighting

\* an image is rejected for its quality score: by processImage (below 0.3) or
\* by validateImageConsistency (below 0.5)
RejectedForQuality ==
    \/ AssessImageQuality(source1.image) < 300
    \/ /\ vehicleImg1 # Nil
       /\ AssessImageQuality(source2.image) < 300
    \/ /\ vehicleImg1 # Nil /\ vehicleImg2 # Nil
       /\ ~ClassifiedDifferently
       /\ \/ vehicleImg1.QualityScore < 500
          \/ vehicleImg2.QualityScore < 500

\* C12: the error CompareVehicleImages returns can be classified by text as
\* the README shows: it contains "cannot compare different" whenever the two
\* images have different views or lighting, and "quality too low" whenever
\* an image is rejected for insufficient quality.
C12_ErrorsClassifiedByText ==
    (mode = "file" /\ pc = "returned" /\ ~LoadFails) =>
        /\ ClassifiedDifferently => Contains(err, "cannot compare different")
        /\ RejectedForQuality => Contains(err, "quality too low")

\* the quality score as a function of the measured Laplacian variance and
\* mean residual: 0.3*blur + 0.3*contrast + 0.2*noise + 0.2*resolution
blurFromVariance(img) == Min((img.laplacianVariance * Scale) \div 100, Scale)

noiseFromResidual(img) == Max(0, Scale - (img.meanResidual * Scale) \div 20)

QualityFromMeasurements(img) ==
    Min((blurFromVariance(img) * 300 + assessContrast(img) * 300
           + noiseFromResidual(img) * 200 + assessResolution(img) * 200) \div Scale,
        Scale)

\* C13: the quality score is 0.3*blur + 0.3*contrast + 0.2*noise +
\* 0.2*resolution with blur and noise computed from the image, so that a
\* blurred, low-contrast image scores below 0.3 and processImage rejects it
\* with a quality error.
C13_QualityFromImage ==
    (mode \in ServiceModes /\ source1.kind = "ok" /\ source2.kind = "ok") =>
        /\ AssessImageQuality(source1.image) = QualityFromMeasurements(source1.image)
        /\ (pc = "returned" /\ QualityFromMeasurements(source1.image) < 300)
               => err = "failed to process image 1: image quality too low"

\* the decision on the three measurements: Daylight (0.8) when saturation >
\* 0.1 and brightness > 0.3, otherwise Infrared (0.8) when contrastPattern >
\* 0.7 and saturation < 0.05, otherwise Unknown (0)
MeasuredSaturation(m) ==
    IF m.channels = 1 THEN 0 ELSE (m.meanSaturation * Scale) \div 255

LightingFromMeasurements(m) ==
    IF MeasuredSaturation(m) > 100 /\ (m.meanBrightness * Scale) \div 255 > 300
    THEN [lighting |-> LightingDaylight, confidence |-> 800]
    ELSE IF (m.laplacianStddev * Scale) \div 100 > 700 /\ MeasuredSaturation(m) < 50
    THEN [lighting |-> LightingInfrared, confidence |-> 800]
    ELSE [lighting |-> LightingUnknown, confidence |-> 0]

\* C14: ClassifyLighting decides from the mean brightness, the Laplacian
\* contrast pattern and the mean saturation of the image; an image with low
\* saturation and a high contrast pattern is labelled Infrared.
C14_LightingFromMeasurements ==
    LightingReturned => out = LightingFromMeasurements(mat)

\* every per-category score that applies to the lighting equals 1.0
AllCategoriesFull(scores, lighting) ==
    /\ scores.GeometricSimilarity = Scale
    /\ scores.LightPatternSimilarity = Scale
    /\ scores.BumperSimilarity = Scale
    /\ lighting = LightingDaylight => scores.ColorSimilarity = Scale
    /\ lighting = LightingInfrared => scores.ThermalSimilarity = Scale

ComparedWithItself == EngineReturned /\ features1 = features2

IsNonZero(sig) == \E i \in 1..Len(sig) : sig[i] # 0

FullyPopulated(f) ==
    /\ f.GeometricFeatures.VehicleProportions.WidthHeightRatio > 0
    /\ f.GeometricFeatures.VehicleProportions.UpperLowerRatio > 0
    /\ Len(f.GeometricFeatures.StructuralElements) > 0
    /\ \A k \in 1..Len(f.GeometricFeatures.StructuralElements) :
          f.GeometricFeatures.StructuralElements[k].Size > 0
    /\ Len(f.GeometricFeatures.ReferencePoints) > 0
    /\ Len(f.LightPatterns.LightElements) > 0
    /\ \A k \in 1..Len(f.LightPatterns.LightElements) :
          /\ f.LightPatterns.LightElements[k].Size > 0
          /\ f.LightPatterns.LightElements[k].Intensity <= Scale
    /\ IsNonZero(f.LightPatterns.PatternSignature)
    /\ Len(f.BumperFeatures.ContourSignature) > 0
    /\ Len(f.BumperFeatures.MountingPoints) > 0
    /\ IsNonZero(f.BumperFeatures.TextureFeatures)
    /\ f.BumperFeatures.LicensePlateArea.Width > 0
    /\ f.BumperFeatures.LicensePlateArea.Height > 0
    /\ f.Lighting = LightingDaylight => f.DaylightFeatures # Nil
    /\ f.Lighting = LightingInfrared =>
          /\ f.InfraredFeatures # Nil
          /\ f.InfraredFeatures.IRSignature # Nil

IdenticalFrontDaylight ==
    /\ ServiceReturned
    /\ err = NoError
    /\ source1.image = source2.image
    /\ vehicleImg1.View = ViewFront
    /\ vehicleImg1.Lighting = LightingDaylight

LightElementsDetected == Len(features1.LightPatterns.LightElements) > 0

C17_Deterministic ==
    (/\ mode \in ServiceModes
     /\ pc \in {"compare", "returned", "printed"}
     /\ features1 # Nil /\ features2 # Nil
     /\ source1.image = source2.image)
        => features1 = features2

ValidContours(gray) ==
    { k \in 1..Len(gray.patches) : isValidPlateSize(gray.patches[k].bounds) }

ContourScore(gray, k) ==
    scorePlateCandidate(gray, gray.patches[k].bounds, gray.patches[k].contourArea)

\* the region is the best-scoring valid contour
IsBestContour(region, gray) ==
    \E k \in ValidContours(gray) :
        /\ region.Bounds = gray.patches[k].bounds
        /\ region.Confidence = ContourScore(gray, k)
        /\ \A j \in ValidContours(gray) : ContourScore(gray, j) <= ContourScore(gray, k)

\* the region is a brightest sliding window
IsBrightestWindow(region, gray) ==
    /\ region.Bounds \in TriedWindows(gray)
    /\ region.AvgBrightness = calculateAverageBrightness(gray, region.Bounds)
    /\ \A w \in TriedWindows(gray) :
          calculateAverageBrightness(gray, w) <= region.AvgBrightness

SomeWindowIsLit(gray) ==
    \E w \in TriedWindows(gray) : calculateAverageBrightness(gray, w) > 0

IsBottomCenter(region) ==
    /\ region.Confidence = 100
    /\ region.AvgBrightness = 0
    /\ ~region.IsReflective

\* C18: DetectLicensePlate returns, for every image, a non-nil region and a
\* nil error, from the first tier that yields one: the best-scoring valid
\* contour, else the brightest sliding window, else the fixed bottom-center
\* region (confidence 0.1, brightness 0, not reflective); Confidence is in
\* [0,1] and IsReflective holds exactly when AvgBrightness > 180.
C18_PlateAlwaysReturned ==
    PlateReturned =>
        /\ out.err = NoError
        /\ out.result # Nil
        /\ out.result.Confidence >= 0 /\ out.result.Confidence <= Scale
        /\ out.result.IsReflective <=> out.result.AvgBrightness > 180 * Scale
        /\ IF ValidContours(mat) # {} THEN IsBestContour(out.result, mat)
           ELSE IF SomeWindowIsLit(mat) THEN IsBrightestWindow(out.result, mat)
           ELSE IsBottomCenter(out.result)

\* an image too small for any window: the bottom-center region
C18_Witness ==
    /\ PlateReturned
    /\ mat.cols = 80
    /\ mat.level = 90
    /\ out.err = NoError
    /\ IsBottomCenter(out.result)
    /\ out.result.Bounds = Bounds(-40, -13, 160, 53)

\* exactly one of the two lighting-specific feature sets, the one of Lighting
FeaturesMatchLighting(f) ==
    IF f.Lighting = LightingDaylight
    THEN f.DaylightFeatures # Nil /\ f.InfraredFeatures = Nil
    ELSE /\ f.Lighting = LightingInfrared
         /\ f.InfraredFeatures # Nil /\ f.DaylightFeatures = Nil

\* C19: every VehicleFeatures the service's extractFeatures produces carries
\* exactly one of DaylightFeatures and InfraredFeatures, the one matching its
\* Lighting; in a returned result ColorSimilarity is 0 for infrared and
\* ThermalSimilarity is 0 for daylight.
C19_OneLightingFeatureSet ==
    mode \in PipelineModes =>
        /\ features1 # Nil => FeaturesMatchLighting(features1)
        /\ features2 # Nil => FeaturesMatchLighting(features2)
        /\ (pc = "returned" /\ err = NoError /\ features1 # Nil) =>
              /\ features1.Lighting = LightingInfrared
                    => result.DetailedScores.ColorSimilarity = 0
              /\ features1.Lighting = LightingDaylight
                    => result.DetailedScores.ThermalSimilarity = 0

C19_Witness ==
    /\ ValidatedReturned
    /\ err = NoError
    /\ features1.Lighting = LightingInfrared
    /\ features1.InfraredFeatures # Nil
    /\ features1.DaylightFeatures = Nil
    /\ result.DetailedScores.ColorSimilarity = 0
    /\ result.DetailedScores.ThermalSimilarity > 0

\* C20: on every return path of CompareVehicleImages and
\* CompareVehicleImagesFromBase64, success or error, every image buffer the
\* call created (loaded, decoded or cloned) has been closed when the call
\* returns.
C20_AllMatsClosed ==
    ServiceReturned => openMats = {}

\* ------------------------------------------------------------------------
\* C21: the overall similarity is the fixed-weight sum of the five category
\* scores, with the table chosen by lighting: Daylight 0.30/0.30/0.20/0.20/0,
\* Infrared 0.35/0.35/0.20/0/0.10; each table sums to 1, and the weight
\* fields stored in the ComparisonEngine play no part.
\* ------------------------------------------------------------------------
WeightTable(lighting) ==
    IF lighting = LightingDaylight
    THEN <<300, 300, 200, 200, 0>>
    ELSE <<350, 350, 200, 0, 100>>

CategoryScores(scores) ==
    <<scores.GeometricSimilarity, scores.LightPatternSimilarity,
      scores.BumperSimilarity, scores.ColorSimilarity, scores.ThermalSimilarity>>

WeightedSum(table, categories) ==
    SumSeq([k \in 1..5 |-> table[k] * categories[k]]) \div Scale

ComparedByEngine ==
    /\ mode \in {"engine"} \cup PipelineModes
    /\ pc = "returned"
    /\ err = NoError
    /\ features1.Lighting \in {LightingDaylight, LightingInfrared}

C21_FixedWeightSum ==
    /\ \A lighting \in {LightingDaylight, LightingInfrared} :
           SumSeq(WeightTable(lighting)) = Scale
    /\ ComparedByEngine =>
           result.SimilarityScore =
               WeightedSum(WeightTable(features1.Lighting),
                           CategoryScores(result.DetailedScores))

\* an infrared pair whose thermal score counts and whose colour score is
\* zero, and a daylight pair whose colour score counts
C21_Witness ==
    /\ ComparedByEngine
    /\ mode = "engine"
    /\ features1.Lighting = LightingInfrared
    /\ result.DetailedScores.ThermalSimilarity > 0
    /\ result.DetailedScores.ThermalSimilarity < Scale
    /\ result.DetailedScores.GeometricSimilarity
           # result.DetailedScores.LightPatternSimilarity
    /\ result.SimilarityScore > 0

\* ------------------------------------------------------------------------
\* C22: for plate bounds inside the image, calculateSurroundingRegion returns
\* the plate rectangle grown by floor(0.75*W) to the left and right and by
\* floor(0.75*H) above and below, intersected with the image rectangle; also
\* when the growth is cut off at the left or top edge.
\* ------------------------------------------------------------------------
ExpandedAndClipped(plateBounds, imgHeight, imgWidth) ==
    LET left == Max(0, plateBounds.X - ThreeQuarters(plateBounds.Width))
        top == Max(0, plateBounds.Y - ThreeQuarters(plateBounds.Height))
        right == Min(imgWidth, plateBounds.X + plateBounds.Width
                                   + ThreeQuarters(plateBounds.Width))
        bottom == Min(imgHeight, plateBounds.Y + plateBounds.Height
                                     + ThreeQuarters(plateBounds.Height))
    IN Bounds(left, top, right - left, bottom - top)

C22_SurroundingRegionIsClippedExpansion ==
    SurroundReturned =>
        out = ExpandedAndClipped(mat.plateBounds, mat.imgHeight, mat.imgWidth)

\* ------------------------------------------------------------------------
\* C23: compareStructuralElements, compareLightElements and
\* compareShadowPatterns return 1.0 when both sets are empty and 0.0 when
\* exactly one of the two is empty, whichever argument it is.
\* ------------------------------------------------------------------------
SetComparisons ==
    {"compareStructuralElements", "compareLightElements", "compareShadowPatterns"}

SetComparisonReturned ==
    \E fn \in SetComparisons : ComparisonReturned(fn)

C23_EmptySetHandling ==
    SetComparisonReturned =>
        /\ (Len(mat.a) = 0 /\ Len(mat.b) = 0) => out = Scale
        /\ ((Len(mat.a) = 0) # (Len(mat.b) = 0)) => out = 0

\* light elements compared with nothing, empty first argument
C23_Witness ==
    /\ ComparisonReturned("compareLightElements")
    /\ Len(mat.a) = 0
    /\ Len(mat.b) = 2
    /\ out = 0

\* ------------------------------------------------------------------------
\* C24: compareReflectivityMaps returns exactly 0.0 whenever the two maps
\* differ in the number of rows or in the length of any row, also when only
\* some rows differ in length; for maps of the same dimensions it returns
\* 1 minus the mean absolute difference of the cells.
\* ------------------------------------------------------------------------
SameDimensions(m1, m2) ==
    /\ Len(m1) = Len(m2)
    /\ \A i \in 1..Len(m1) : Len(m1[i]) = Len(m2[i])

CellCount(m) == SumSeq([i \in 1..Len(m) |-> Len(m[i])])

MeanAbsoluteDifference(m1, m2) ==
    SumSeq([i \in 1..Len(m1) |->
               SumSeq([j \in 1..Len(m1[i]) |-> Abs(m1[i][j] - m2[i][j])])])
        \div CellCount(m1)

C24_MapDimensionMismatchIsZero ==
    ComparisonReturned("compareReflectivityMaps") =>
        /\ ~SameDimensions(mat.a, mat.b) => out = 0
        /\ (SameDimensions(mat.a, mat.b) /\ CellCount(mat.a) > 0) =>
               out = Scale - MeanAbsoluteDifference(mat.a, mat.b)

\* ------------------------------------------------------------------------
\* C25: for every image and every view given to ExtractGeometricFeatures,
\* Front, Rear or Unknown, the ReferencePoints contain the four corners
\* (0,0), (cols,0), (0,rows), (cols,rows); the set is never empty, and
\* compareReferencePoints on two extracted sets never takes its 0.5 default
\* for a missing set.
\* ------------------------------------------------------------------------
ContainsCorners(points, img) ==
    \A k \in 1..4 :
        \E i \in 1..Len(points) : points[i] = Corners(img.cols, img.rows)[k]

Anchored(geo, img) ==
    /\ ContainsCorners(geo.ReferencePoints, img)
    /\ Len(geo.ReferencePoints) > 0

ExtractedInPipeline(features, vehicleImg) ==
    (mode \in PipelineModes /\ features # Nil) =>
        /\ features.View \in {ViewFront, ViewRear}
        /\ Anchored(features.GeometricFeatures, vehicleImg.Image)

Swapped(fn, a, b) ==
    IF fn = "compareVehicleProportions" THEN compareVehicleProportions(b, a)
    ELSE IF fn = "compareSignatures" THEN compareSignatures(b, a)
    ELSE compareReflectivityMaps(b, a)

SymmetricComparisons ==
    {"compareVehicleProportions", "compareSignatures", "compareReflectivityMaps"}

C26_Symmetry ==
    \A fn \in SymmetricComparisons :
        ComparisonReturned(fn) => out = Swapped(fn, mat.a, mat.b)

\* proportions that differ in every ratio, one of them without a plate
C26_Witness ==
    /\ ComparisonReturned("compareVehicleProportions")
    /\ mat.a.LicensePlateRatio = 0
    /\ mat.b.LicensePlateRatio > 0
    /\ mat.a.WidthHeightRatio > mat.b.WidthHeightRatio
    /\ mat.a.UpperLowerRatio < mat.b.UpperLowerRatio
    /\ out > 0
    /\ out < Scale

\* ------------------------------------------------------------------------
\* C27: for non-empty shadow sets A and B with at least one match,
\* compareShadowPatterns(A, B) is no greater than the plain average of the
\* best-match similarities over the matched points of A; in particular the
\* score is not raised above that average when A has more points than B.
\* ------------------------------------------------------------------------
\* the similarity of the point of B nearest to s1
BestShadowMatch(s1, shadows2) ==
    SetMax({ ExpNeg(Distance(s1, shadows2[j]) \div 50) : j \in 1..Len(shadows2) })

MatchedShadows(shadows1, shadows2) ==
    { i \in 1..Len(shadows1) : BestShadowMatch(shadows1[i], shadows2) > 300 }

MatchedTotal(shadows1, shadows2) ==
    SumSeq([i \in 1..Len(shadows1) |->
               IF i \in MatchedShadows(shadows1, shadows2)
               THEN BestShadowMatch(shadows1[i], shadows2) ELSE 0])

ShadowsMatched ==
    /\ ComparisonReturned("compareShadowPatterns")
    /\ Len(mat.a) > 0
    /\ Len(mat.b) > 0
    /\ MatchedShadows(mat.a, mat.b) # {}

\* out <= total / matchCount, without rounding the quotient
AtMostPlainAverage ==
    out * Cardinality(MatchedShadows(mat.a, mat.b)) <= MatchedTotal(mat.a, mat.b)

C27_NeverAbovePlainAverage ==
    ShadowsMatched => AtMostPlainAverage

\* C27 as the code has it: the bound holds when A has no more points than B;
\* the score is the matched total over the smaller count, cut off at 1.0.
C27_BoundedWhenFirstNotLarger ==
    ShadowsMatched =>
        /\ out = Min(Scale, MatchedTotal(mat.a, mat.b)
                                \div Min(Len(mat.a), Len(mat.b)))
        /\ Len(mat.a) <= Len(mat.b) => AtMostPlainAverage

\* one point of two matches: the score is half the plain average
C27_Witness ==
    /\ ShadowsMatched
    /\ Len(mat.a) = 2
    /\ Len(mat.b) = 2
    /\ Cardinality(MatchedShadows(mat.a, mat.b)) = 1
    /\ out * 2 <= MatchedTotal(mat.a, mat.b)
    /\ out > 0

\* ------------------------------------------------------------------------
\* C28: the service returns a result only if all gates passed.  For every
\* successful call each image had quality at least 0.5, a view Front or Rear
\* and a lighting Daylight or Infrared, each classified with confidence at
\* least 0.5, and the two images agreed in view and lighting; the result has
\* ViewConsistency and LightingConsistency true and both image qualities at
\* least 0.5; and the view/lighting mismatch error of the engine is never
\* produced through the service.
\* ------------------------------------------------------------------------
GatePassed(vehicleImg) ==
    /\ vehicleImg # Nil
    /\ vehicleImg.QualityScore >= 500
    /\ vehicleImg.View \in {ViewFront, ViewRear}
    /\ vehicleImg.Lighting \in {LightingDaylight, LightingInfrared}
    /\ ClassifyView(vehicleImg.Image)[1] = vehicleImg.View
    /\ ClassifyView(vehicleImg.Image)[2] >= 500
    /\ ClassifyLighting(vehicleImg.Image)[1] = vehicleImg.Lighting
    /\ ClassifyLighting(vehicleImg.Image)[2] >= 500

ServiceSucceeded ==
    /\ mode \in ServiceModes
    /\ pc \in {"returned", "printed"}
    /\ err = NoError

QualityByLights(features) ==
    features # Nil =>
        features.ExtractionQuality =
            IF Len(features.LightPatterns.LightElements) = 0 THEN 500 ELSE 800

PipelineSucceeded ==
    /\ mode \in PipelineModes
    /\ pc \in {"returned", "printed"}
    /\ err = NoError

C29_NeverLowConfidence ==
    mode \in PipelineModes =>
        /\ QualityByLights(features1)
        /\ QualityByLights(features2)
        /\ PipelineSucceeded =>
              /\ features1.ExtractionQuality + features2.ExtractionQuality > 2 * 400
              /\ result.ConfidenceLevel # ConfidenceLow

\* light elements found on one photograph only
C29_Witness ==
    /\ PipelineSucceeded
    /\ mode \in ServiceModes
    /\ features1.ExtractionQuality = 500
    /\ features2.ExtractionQuality = 800
    /\ result.ConfidenceLevel = ConfidenceMedium

\* ------------------------------------------------------------------------
\* C30: for every image size the region DetectLicensePlate returns lies
\* inside the image (X >= 0, Y >= 0, X + Width <= cols, Y + Height <= rows),
\* whichever of the three tiers produced it, the bottom-center fallback
\* included; and for every such region calculateSurroundingRegion returns
\* a rectangle that lies inside the image and contains the plate bounds.
\* ------------------------------------------------------------------------
InsideImage(bounds, cols, rows) ==
    /\ bounds.X >= 0
    /\ bounds.Y >= 0
    /\ bounds.X + bounds.Width <= cols
    /\ bounds.Y + bounds.Height <= rows

ContainsBounds(outer, inner) ==
    /\ outer.X <= inner.X
    /\ outer.Y <= inner.Y
    /\ inner.X + inner.Width <= outer.X + outer.Width
    /\ inner.Y + inner.Height <= outer.Y + outer.Height

SurroundsInside(plateBounds, region, cols, rows) ==
    /\ InsideImage(region, cols, rows)
    /\ ContainsBounds(region, plateBounds)

PlateInsideImage ==
    PlateReturned => InsideImage(out.result.Bounds, mat.cols, mat.rows)

SurroundingOfDetectedPlate ==
    PlateReturned =>
        SurroundsInside(out.result.Bounds,
                        calculateSurroundingRegion(out.result.Bounds,
                                                   mat.rows, mat.cols),
                        mat.cols, mat.rows)

SurroundingOfPlateInside ==
    SurroundReturned =>
        SurroundsInside(mat.plateBounds, out, mat.imgWidth, mat.imgHeight)

C30_RegionsInsideImage ==
    /\ PlateInsideImage
    /\ SurroundingOfDetectedPlate
    /\ SurroundingOfPlateInside

====
